---- MODULE Spec2Model ----
(***************************************************************************)
(* Verification model of the knee-timer client (src/src/App.tsx): the     *)
(* speech cache / fetch coordinator and the countdown scheduler with its  *)
(* playback controller.                                                    *)
(*                                                                         *)
(* The specifications share the module's variables and handlers:          *)
(*   SpecCache    the speech cache and in-flight map (getTtsBlob,         *)
(*                fetchTtsBlob) under any call on any key at any time.    *)
(*   Spec         the session timer and its controls; the speak requests  *)
(*                it dispatches stay pending.                             *)
(*   SpecSpeech   the speak attempts beside the controls that need no     *)
(*                tick.                                                   *)
(*   SpecLive     one session left to run, with its speak attempts.       *)
(*   SpecPause    SpecLive with pause.                                    *)
(*   SpecStop     sessions started and stopped, with their attempts.      *)
(*   SpecWait     the pre-roll before a session, with "Test voice".       *)
(*   SpecPrefetch the prefetch loops and their epoch.                     *)
(*   SpecWarm     the prefetch loops together with the cache they warm.   *)
(*   SpecServer   the POST /api/tts handler.                              *)
(*   SpecUtils    the pure helpers of ttsUtils on drawn arguments.        *)
(*   SpecMinutes  the session length a start derives from the duration    *)
(*                field.                                                  *)
(***************************************************************************)
EXTENDS Integers, Sequences, FiniteSets, TLC

(***************************************************************************)
(* Bounds of the exploration.                                              *)
(***************************************************************************)
MaxKeys == 3
CacheCapacity == 2
MaxWaiters == 2

Keys == 1..MaxKeys

VARIABLES
  \* ---- speech cache and fetch coordinator (App.tsx 171-172, 438-493)
  ttsCache,       \* ttsCacheRef: keys of the Map in insertion order
  ttsInFlight,    \* ttsInFlightRef: keys that have a pending request
  staticPending,  \* per key: fetchTtsBlob calls waiting on the static lookup
  apiPending,     \* per key: fetchTtsBlob calls waiting on POST /api/tts
  waiters,        \* per key: getTtsBlob callers still awaiting a result
  lastResult,     \* per key: how the last settled request ended
  lastHit         \* history: the key if the latest step of the cache was a hit, else 0

cacheVars ==
  <<ttsCache, ttsInFlight, staticPending, apiPending, waiters, lastResult, lastHit>>

VARIABLES
  \* ---- React state of App (App.tsx 131-160)
  minutesInput,     \* parseInt(minutesInput, 10) of the duration field
  durationMinutes,
  secondsLeft,
  isRunning,
  isFinished,
  waitSeconds,
  isWaiting,
  waitSecondsLeft,
  speechEnabled,
  ttsMuted,
  voicesLoad,       \* loadVoices(): "loading", "ok" or "failed"
  cameraStream,     \* a camera stream is held
  recording,        \* mediaRecorderRef.current?.state === "recording"
  \* ---- refs and timers (App.tsx 166-180, 204-205, 594)
  intervalRef,      \* the tick interval is set
  tickTimers,       \* tick intervals registered with the browser and not cleared
  tickSpeech,       \* speechEnabled as captured by the interval's closure
  waitIntervalRef,  \* the wait interval is set
  pendingStart,     \* setTimeout(() => startTimer(), 0) has not fired yet
  startClosure,     \* what that deferred startTimer captured at the click
  lastSpokenRef,
  totalSecondsRef,
  ttsFailCount,
  \* ---- speak attempts and the shared voice element (App.tsx 68-77, 398-432)
  fetching,         \* per kind: attempts awaiting getTtsBlob
  audioRef,         \* audioRef.current is set
  audioUrl,         \* audioUrlRef.current is set (then to the latest URL)
  elem,             \* shared element: "idle", "starting" (play() pending), "playing"
  owner,            \* kind of the latest playBlob while its promise is unsettled
  ownerStage,       \* its 120 ms timer pending / its play() pending / play() resolved
  staleTimers,      \* per kind: 120 ms timers of replaced (or settled) attempts
  playPending,      \* per kind: replaced attempts whose play() is pending
  \* ---- background music (App.tsx 176-180, 309-396)
  hasWebAudio,      \* window.AudioContext exists
  bgAudio,          \* backgroundAudioRef: "none", "paused", "playing"
  bgCtx,            \* audioContextRef and bgGainNodeRef are set
  bgGain,           \* gain (or element volume): "zero", "duck", "normal"
  \* ---- history kept for the properties, never read by the program
  milestoneCount,   \* per milestone key: dispatches in this session
  cadenceCount,     \* per cadence slot: dispatches in this session
  endCount,         \* finish lines dispatched in this session
  uninterrupted,    \* no pause / stop / reset since the session started
  failRun,          \* failed speak attempts since the last successful one
  maxFailRun        \* the longest such run so far, followed up to FailLimit

sessionVars ==
  <<minutesInput, durationMinutes, secondsLeft, isRunning, isFinished, waitSeconds,
    isWaiting, waitSecondsLeft, speechEnabled, ttsMuted, voicesLoad, cameraStream,
    recording, intervalRef, tickTimers, tickSpeech, waitIntervalRef, pendingStart,
    startClosure,
    lastSpokenRef, totalSecondsRef, ttsFailCount, fetching, audioRef, audioUrl, elem,
    owner, ownerStage, staleTimers, playPending, hasWebAudio, bgAudio,
    bgCtx, bgGain, milestoneCount, cadenceCount, endCount, uninterrupted,
    failRun, maxFailRun>>

VARIABLES
  \* ---- prefetch (App.tsx 173, 495-497, 571-585)
  prefetchIdRef,    \* prefetchIdRef.current, the epoch
  loops             \* per prefetchId: where the loop started under it stands

prefetchVars == <<prefetchIdRef, loops>>

VARIABLES
  \* ---- the /api/tts handler (server/index.mjs 36-56, 74-126)
  srvCache,         \* cache: the Map's entries in its order, each fresh or expired
  srvBorn,          \* keys of the fresh entries, oldest expiresAt first
  srvCalls          \* per key: fetches of the synthesis provider still pending

serverVars == <<srvCache, srvBorn, srvCalls>>

VARIABLES
  \* ---- the pure helpers of ttsUtils applied to an argument (App.tsx 1577-1711)
  input,            \* the argument drawn for the call
  output,           \* what the call returned
  applied           \* the helper that was called, "none" before the call

utilVars == <<input, output, applied>>

vars == <<cacheVars, sessionVars, prefetchVars, serverVars, utilVars>>

(***************************************************************************)
(* Helpers on the insertion-ordered Map.                                   *)
(***************************************************************************)
SeqToSet(s) == {s[i] : i \in 1..Len(s)}

RemoveKey(s, k) == SelectSeq(s, LAMBDA x : x # k)

\* Map.set: an existing key keeps its position, a new key goes last.
MapSet(s, k) == IF k \in SeqToSet(s) THEN s ELSE Append(s, k)

\* faulty variant: the key just inserted is the one deleted
EvictNewest(s) == IF Len(s) > CacheCapacity THEN SubSeq(s, 1, Len(s) - 1) ELSE s

\* App.tsx 480-483: over capacity => delete the first key of the Map.
EvictOldest(s) == IF Len(s) > CacheCapacity THEN Tail(s) ELSE s

Outstanding(k) == staticPending[k] + apiPending[k]

(***************************************************************************)
(* getTtsBlob (App.tsx 469-493).                                           *)
(***************************************************************************)
\* faulty variant: the in-flight lookup is skipped
NeedsFetchNoInFlightCheck(k) == k \notin SeqToSet(ttsCache)

\* The lookups that precede a new fetch (App.tsx 471-474).
NeedsFetch(k) == k \notin SeqToSet(ttsCache) /\ k \notin ttsInFlight

GetTtsBlob(k) ==
  /\ waiters[k] < MaxWaiters
  /\ IF k \in SeqToSet(ttsCache)
       THEN \* cache hit: the blob is returned, the Map is not touched
            /\ lastHit' = k
            /\ UNCHANGED <<ttsCache, ttsInFlight, staticPending, apiPending, waiters,
                           lastResult>>
       ELSE IF ~NeedsFetch(k)
         THEN \* joins the pending request
              /\ waiters' = [waiters EXCEPT ![k] = @ + 1]
              /\ lastHit' = 0
              /\ UNCHANGED <<ttsCache, ttsInFlight, staticPending, apiPending, lastResult>>
         ELSE \* fetchTtsBlob starts with the static lookup (App.tsx 440-443)
              /\ staticPending' = [staticPending EXCEPT ![k] = @ + 1]
              /\ ttsInFlight' = ttsInFlight \cup {k}
              /\ waiters' = [waiters EXCEPT ![k] = @ + 1]
              /\ lastHit' = 0
              /\ UNCHANGED <<ttsCache, apiPending, lastResult>>

\* faulty variant: the in-flight entry outlives the success
OnFetchedKeepsEntry(k) ==
  /\ ttsCache' = EvictOldest(MapSet(ttsCache, k))
  /\ waiters' = [waiters EXCEPT ![k] = 0]
  /\ lastResult' = [lastResult EXCEPT ![k] = "resolved"]
  /\ lastHit' = 0
  /\ UNCHANGED ttsInFlight

\* The .then of the request (App.tsx 477-485).
OnFetched(k) ==
  /\ ttsInFlight' = ttsInFlight \ {k}
  /\ ttsCache' = EvictOldest(MapSet(ttsCache, k))
  /\ waiters' = [waiters EXCEPT ![k] = 0]
  /\ lastResult' = [lastResult EXCEPT ![k] = "resolved"]
  /\ lastHit' = 0

\* faulty variant: the in-flight entry outlives the failure
OnFetchFailedKeepsEntry(k) ==
  /\ waiters' = [waiters EXCEPT ![k] = 0]
  /\ lastResult' = [lastResult EXCEPT ![k] = "rejected"]
  /\ lastHit' = 0
  /\ UNCHANGED <<ttsCache, ttsInFlight>>

\* The .catch of the request (App.tsx 486-489).
OnFetchFailed(k) ==
  /\ ttsInFlight' = ttsInFlight \ {k}
  /\ waiters' = [waiters EXCEPT ![k] = 0]
  /\ lastResult' = [lastResult EXCEPT ![k] = "rejected"]
  /\ lastHit' = 0
  /\ UNCHANGED ttsCache

(***************************************************************************)
(* fetchTtsBlob (App.tsx 438-467): static catalog first, then /api/tts.    *)
(***************************************************************************)
StaticHit(k) ==
  /\ staticPending[k] > 0
  /\ staticPending' = [staticPending EXCEPT ![k] = @ - 1]
  /\ UNCHANGED apiPending
  /\ OnFetched(k)

\* faulty variant: a static miss rejects the request
StaticMissFails(k) ==
  /\ staticPending[k] > 0
  /\ staticPending' = [staticPending EXCEPT ![k] = @ - 1]
  /\ UNCHANGED apiPending
  /\ OnFetchFailed(k)

\* a non-success status or a thrown error: fall through to the API
StaticMiss(k) ==
  /\ staticPending[k] > 0
  /\ staticPending' = [staticPending EXCEPT ![k] = @ - 1]
  /\ apiPending' = [apiPending EXCEPT ![k] = @ + 1]
  /\ lastHit' = 0
  /\ UNCHANGED <<ttsCache, ttsInFlight, waiters, lastResult>>

ApiOk(k) ==
  /\ apiPending[k] > 0
  /\ apiPending' = [apiPending EXCEPT ![k] = @ - 1]
  /\ UNCHANGED staticPending
  /\ OnFetched(k)

ApiFail(k) ==
  /\ apiPending[k] > 0
  /\ apiPending' = [apiPending EXCEPT ![k] = @ - 1]
  /\ UNCHANGED staticPending
  /\ OnFetchFailed(k)

InitCache ==
  /\ ttsCache = <<>>
  /\ ttsInFlight = {}
  /\ staticPending = [k \in Keys |-> 0]
  /\ apiPending = [k \in Keys |-> 0]
  /\ waiters = [k \in Keys |-> 0]
  /\ lastResult = [k \in Keys |-> "none"]
  /\ lastHit = 0

CacheGet == (\E k \in Keys : GetTtsBlob(k)) /\ UNCHANGED <<sessionVars, prefetchVars, serverVars, utilVars>>
CacheStaticHit == (\E k \in Keys : StaticHit(k)) /\ UNCHANGED <<sessionVars, prefetchVars, serverVars, utilVars>>
CacheStaticMiss == (\E k \in Keys : StaticMiss(k)) /\ UNCHANGED <<sessionVars, prefetchVars, serverVars, utilVars>>
CacheApiOk == (\E k \in Keys : ApiOk(k)) /\ UNCHANGED <<sessionVars, prefetchVars, serverVars, utilVars>>
CacheApiFail == (\E k \in Keys : ApiFail(k)) /\ UNCHANGED <<sessionVars, prefetchVars, serverVars, utilVars>>


(***************************************************************************)
(* Program constants.                                                      *)
(***************************************************************************)
DEFAULT_MINUTES == 10
MinMinutes == 1
MaxMinutes == 15
FailLimit == 3
CadenceSeconds == 30
WaitChoices == {0, 30, 60}

(***************************************************************************)
(* Bounds of the session exploration.                                      *)
(***************************************************************************)
MaxInputMinutes == 1   \* durations the user types and starts: 1..MaxInputMinutes
MaxPending == 2        \* speak attempts awaiting getTtsBlob at one time
MaxTimers == 2         \* 120 ms duck-settle timers pending at one time
MaxFail == 4           \* the failure counter is followed up to this value
MaxCount == 2          \* dispatch counts are followed up to this value

\* The duration field starts at DEFAULT_MINUTES; a session is started only once
\* the field holds one of the durations followed here.
InputMinutes == 1..MaxInputMinutes
Kinds == {"start", "speak"}
TimerKinds == {"start", "speak", "done"}

Min(a, b) == IF a < b THEN a ELSE b
Max(a, b) == IF a > b THEN a ELSE b

(***************************************************************************)
(* ttsUtils: clampInt, computeMilestones (App.tsx 1577-1580, 1664-1688).   *)
(***************************************************************************)
\* n is parseInt(...) of a numeric field: always finite here
clampInt(n, lo, hi) == Max(lo, Min(hi, n))

\* faulty variant: the fraction is cut off (Math.floor)
RoundFracFloor(t, p, q) == (t * p) \div q

\* Math.round(t * p / q) for t >= 0: halves round up
RoundFrac(t, p, q) == (2 * t * p + q) \div (2 * q)

computeMilestones(totalSeconds) ==
  LET t == Max(1, totalSeconds)
  IN  << [key |-> "m25", elapsed |-> RoundFrac(t, 1, 4)],
         [key |-> "m50", elapsed |-> RoundFrac(t, 1, 2)],
         [key |-> "m75", elapsed |-> RoundFrac(t, 3, 4)],
         [key |-> "m90", elapsed |-> RoundFrac(t, 9, 10)] >>

MilestoneKeys == {"m25", "m50", "m75", "m90"}

MaxSeconds == 60 * clampInt(MaxInputMinutes, MinMinutes, MaxMinutes)
CadenceSlots == {n \in 1..MaxSeconds : n % CadenceSeconds = 0}

(***************************************************************************)
(* lastSpokenRef holds null, a milestone key or a secondsLeft value.       *)
(***************************************************************************)
Null == [tag |-> "null", key |-> "", sec |-> 0]
SpokenKey(k) == [tag |-> "key", key |-> k, sec |-> 0]
SpokenSec(n) == [tag |-> "sec", key |-> "", sec |-> n]

(***************************************************************************)
(* announce (App.tsx 624-652) as a function of its argument, the           *)
(* speechEnabled its closure holds, lastSpokenRef and totalSecondsRef.     *)
(* Result: the new lastSpokenRef and the utterance handed to               *)
(* speakWithSettings ("none" when nothing is).                             *)
(***************************************************************************)
NoLine == [src |-> "none", key |-> "", sl |-> 0]
MilestoneLine(k, sl) == [src |-> "announce", key |-> k, sl |-> sl]
CadenceLine(sl) == [src |-> "announce", key |-> "cadence", sl |-> sl]

\* the first milestone, in list order, that announce would speak
FirstMilestone(elapsedSeconds, ls, ms) ==
  LET hits == {i \in 1..Len(ms) :
                 elapsedSeconds = ms[i].elapsed /\ ls # SpokenKey(ms[i].key)}
  IN  IF hits = {} THEN 0 ELSE CHOOSE i \in hits : \A j \in hits : i <= j

\* faulty variant: the cadence test runs before the milestone loop
announceNoPrecedence(currentSecondsLeft, speech, ls, ts) ==
  IF ~speech \/ currentSecondsLeft = 0
    THEN [last |-> ls, line |-> NoLine]
    ELSE IF currentSecondsLeft % CadenceSeconds = 0 /\ ls # SpokenSec(currentSecondsLeft)
      THEN [last |-> SpokenSec(currentSecondsLeft), line |-> CadenceLine(currentSecondsLeft)]
      ELSE LET ms == computeMilestones(ts)
               m == FirstMilestone(ts - currentSecondsLeft, ls, ms)
           IN  IF m # 0
                 THEN [last |-> SpokenKey(ms[m].key),
                       line |-> MilestoneLine(ms[m].key, currentSecondsLeft)]
                 ELSE [last |-> ls, line |-> NoLine]

\* faulty variant: no early return at 0:00
announceAtZero(currentSecondsLeft, speech, ls, ts) ==
  IF ~speech
    THEN [last |-> ls, line |-> NoLine]
    ELSE IF currentSecondsLeft % CadenceSeconds = 0 /\ ls # SpokenSec(currentSecondsLeft)
      THEN [last |-> SpokenSec(currentSecondsLeft), line |-> CadenceLine(currentSecondsLeft)]
      ELSE [last |-> ls, line |-> NoLine]

announce(currentSecondsLeft, speech, ls, ts) ==
  IF ~speech \/ currentSecondsLeft = 0
    THEN [last |-> ls, line |-> NoLine]
    ELSE LET ms == computeMilestones(ts)
             elapsedSeconds == ts - currentSecondsLeft
             m == FirstMilestone(elapsedSeconds, ls, ms)
         IN  IF m # 0
               THEN [last |-> SpokenKey(ms[m].key),
                     line |-> MilestoneLine(ms[m].key, currentSecondsLeft)]
               ELSE IF currentSecondsLeft % CadenceSeconds # 0
                         \/ ls = SpokenSec(currentSecondsLeft)
                 THEN [last |-> ls, line |-> NoLine]
                 ELSE [last |-> SpokenSec(currentSecondsLeft),
                       line |-> CadenceLine(currentSecondsLeft)]

(***************************************************************************)
(* The handlers below call one another and mutate the same refs in        *)
(* sequence, so each procedure is a function from the store (a record of  *)
(* the refs and state it may touch) to the store after it ran.            *)
(* Field rejected collects the speak attempts whose promise was rejected  *)
(* by the step and whose catch block has still to run.                    *)
(***************************************************************************)
Zero(D) == [k \in D |-> 0]
Total(f) == f["start"] + f["speak"]
TimerTotal(f) == f["start"] + f["speak"] + f["done"]

Store ==
  [ audioRef |-> audioRef, audioUrl |-> audioUrl, elem |-> elem,
    owner |-> owner, ownerStage |-> ownerStage,
    staleTimers |-> staleTimers, playPending |-> playPending,
    fetching |-> fetching,
    bgAudio |-> bgAudio, bgCtx |-> bgCtx, bgGain |-> bgGain,
    ttsFailCount |-> ttsFailCount, speechEnabled |-> speechEnabled,
    ttsMuted |-> ttsMuted, failRun |-> failRun, maxFailRun |-> maxFailRun,
    rejected |-> Zero(Kinds) ]

\* ---- background music ----------------------------------------------------

\* startBackgroundMusic (App.tsx 309-358); ctx.resume() is taken to resolve
\* at once and audio.play() to take effect.
startBackgroundMusic(s) ==
  [s EXCEPT !.bgAudio = "playing",
            !.bgCtx = IF s.bgAudio # "none" /\ s.bgCtx THEN TRUE ELSE hasWebAudio,
            !.bgGain = "normal"]

\* faulty variant: the music is paused, not torn down
stopBackgroundMusicPauseOnly(s) ==
  IF s.bgAudio # "none" THEN [s EXCEPT !.bgAudio = "paused"] ELSE s

\* stopBackgroundMusic (App.tsx 360-372)
stopBackgroundMusic(s) ==
  [s EXCEPT !.bgAudio = "none", !.bgCtx = FALSE, !.bgGain = "normal"]

\* duckBackgroundMusic (App.tsx 374-385)
duckBackgroundMusic(s) ==
  IF s.bgCtx \/ s.bgAudio # "none" THEN [s EXCEPT !.bgGain = "duck"] ELSE s

\* restoreBackgroundMusic (App.tsx 387-396)
restoreBackgroundMusic(s) ==
  IF s.bgCtx \/ s.bgAudio # "none" THEN [s EXCEPT !.bgGain = "normal"] ELSE s

\* faulty variant: pause tears the music pipeline down
pauseTearsDown(s) == [s EXCEPT !.bgAudio = "none", !.bgCtx = FALSE]

\* backgroundAudioRef.current?.pause() (App.tsx 811)
pauseBackgroundMusic(s) ==
  IF s.bgAudio # "none" THEN [s EXCEPT !.bgAudio = "paused"] ELSE s

\* App.tsx 823-830: resume the context, then play
resumeBackgroundMusic(s) ==
  IF s.bgAudio # "none" THEN [s EXCEPT !.bgAudio = "playing"] ELSE s

\* ---- the shared voice element ---------------------------------------------

\* The element stops (pause() or a new src): every pending play() promise is
\* rejected with AbortError.
AbortPlay(s) ==
  LET own == s.owner # "none" /\ s.ownerStage = "starting"
      rej == [k \in Kinds |->
                s.rejected[k] + s.playPending[k] + (IF own /\ s.owner = k THEN 1 ELSE 0)]
  IN  [s EXCEPT !.elem = "idle",
                !.rejected = IF s.elem = "starting" THEN rej ELSE s.rejected,
                !.playPending = IF s.elem = "starting" THEN Zero(Kinds) ELSE s.playPending,
                !.owner = IF s.elem = "starting" /\ own THEN "none" ELSE s.owner,
                !.ownerStage = IF s.elem = "starting" /\ own THEN "timer" ELSE s.ownerStage]

\* stopAudio / stopSpeech (App.tsx 293-307)
stopAudio(s) ==
  LET s1 == IF s.audioRef THEN [AbortPlay(s) EXCEPT !.audioRef = FALSE] ELSE s
  IN  [s1 EXCEPT !.audioUrl = FALSE]

\* the part of playBlob that runs at once (App.tsx 398-431): stopAudio, a new
\* URL as src of the shared element, new onended/onerror, duck, the timer
playBlob(s, kind) ==
  LET s1 == AbortPlay(stopAudio(s))    \* audio.src = url reloads the element
      \* the attempt that owned the handlers keeps only its timer, if pending
      old == IF s1.owner # "none" /\ s1.ownerStage = "timer"
               THEN [s1.staleTimers EXCEPT ![s1.owner] = @ + 1]
               ELSE s1.staleTimers
  IN  duckBackgroundMusic(
        [s1 EXCEPT !.audioUrl = TRUE, !.audioRef = TRUE,
                   !.owner = kind, !.ownerStage = "timer", !.staleTimers = old])

\* ---- the outcome of a speak attempt ---------------------------------------

LogOutcome(s, ok) ==
  LET run == IF ok THEN 0 ELSE Min(s.failRun + 1, MaxFail)
  IN  [s EXCEPT !.failRun = run,
                !.maxFailRun = Min(FailLimit, Max(s.maxFailRun, run))]

\* setSpeechEnabled(false), and the effect of App.tsx 266-268 when it changes
disableSpeech(s) ==
  IF s.speechEnabled THEN stopAudio([s EXCEPT !.speechEnabled = FALSE]) ELSE s

\* faulty variant: success leaves the counter alone
speakSucceededNoReset(s) == s

\* the try branch after speakKokoro (App.tsx 601, 721)
speakSucceeded(s) == [s EXCEPT !.ttsFailCount = 0]

\* faulty variant: speech is disabled at the second failure
speakFailedLimitTwo(s) ==
  LET n == Min(s.ttsFailCount + 1, MaxFail)
      s1 == [s EXCEPT !.ttsFailCount = n]
  IN  IF n >= 2 THEN disableSpeech([s1 EXCEPT !.ttsMuted = TRUE]) ELSE s1

\* the catch block (App.tsx 602-610, 722-729)
speakFailed(s) ==
  LET n == Min(s.ttsFailCount + 1, MaxFail)
      s1 == [s EXCEPT !.ttsFailCount = n]
  IN  IF n >= FailLimit THEN disableSpeech([s1 EXCEPT !.ttsMuted = TRUE]) ELSE s1

\* what follows the settled attempt: the start line's async block goes on to
\* startBackgroundMusic() (App.tsx 730)
afterAttempt(s, kind) == IF kind = "start" THEN startBackgroundMusic(s) ELSE s

attemptResolved(s, kind) == afterAttempt(speakSucceeded(LogOutcome(s, TRUE)), kind)

attemptRejected(s, kind) == afterAttempt(speakFailed(LogOutcome(s, FALSE)), kind)

\* run the catch block of every attempt rejected by the step
RECURSIVE Drain(_)
Drain(s) ==
  IF Total(s.rejected) = 0 THEN s
  ELSE LET k == IF s.rejected["start"] > 0 THEN "start" ELSE "speak"
       IN  Drain(attemptRejected([s EXCEPT !.rejected[k] = @ - 1], k))

\* the step's result becomes the next state of the store; the cache component is
\* followed by SpecCache and the prefetch loops by SpecPrefetch, not here
Commit(s0) ==
  LET s == Drain(s0)
  IN  /\ UNCHANGED <<cacheVars, prefetchVars, serverVars, utilVars>>
      /\ audioRef' = s.audioRef
      /\ audioUrl' = s.audioUrl
      /\ elem' = s.elem
      /\ owner' = s.owner
      /\ ownerStage' = s.ownerStage
      /\ staleTimers' = s.staleTimers
      /\ playPending' = s.playPending
      /\ fetching' = s.fetching
      /\ bgAudio' = s.bgAudio
      /\ bgCtx' = s.bgCtx
      /\ bgGain' = s.bgGain
      /\ ttsFailCount' = s.ttsFailCount
      /\ speechEnabled' = s.speechEnabled
      /\ ttsMuted' = s.ttsMuted
      /\ failRun' = s.failRun
      /\ maxFailRun' = s.maxFailRun

\* speakWithSettings / speakKokoro up to the await of getTtsBlob; of the
\* requests pending at one time only MaxPending ever settle
dispatch(s, kind) ==
  IF Total(s.fetching) < MaxPending THEN [s EXCEPT !.fetching[kind] = @ + 1] ELSE s

(***************************************************************************)
(* Derived values of the render (App.tsx 195, 885-887).                    *)
(***************************************************************************)
totalSeconds == durationMinutes * 60
isPaused ==
  ~isRunning /\ ~isWaiting /\ ~isFinished /\ secondsLeft > 0 /\ secondsLeft # totalSeconds
isReady == ~isRunning /\ ~isWaiting /\ ~isFinished /\ secondsLeft = totalSeconds

\* what a handler created by the current render captures
Closure ==
  [minutes |-> minutesInput, speech |-> speechEnabled,
   camera |-> cameraStream, isRecording |-> recording]

\* startClosure while no wait countdown of start() is live
NoClosure ==
  [minutes |-> DEFAULT_MINUTES, speech |-> TRUE, camera |-> FALSE, isRecording |-> FALSE]

(***************************************************************************)
(* History of dispatched utterances.                                       *)
(***************************************************************************)
StartLine == [src |-> "start", key |-> "startline", sl |-> 0]
FinishLine == [src |-> "finish", key |-> "congrats", sl |-> 0]
PreviewLine == [src |-> "test", key |-> "preview", sl |-> 0]

Bump(n, hit) == IF hit THEN Min(MaxCount, n + 1) ELSE n

Note(lines, mc, cc, ec) ==
  /\ milestoneCount' =
       [k \in MilestoneKeys |->
          Bump(mc[k], \E l \in lines : l.src = "announce" /\ l.key = k)]
  /\ cadenceCount' =
       [n \in CadenceSlots |->
          Bump(cc[n], \E l \in lines : l.src = "announce" /\ l.key = "cadence" /\ l.sl = n)]
  /\ endCount' = Bump(ec, FinishLine \in lines)

NoteSame(lines) == Note(lines, milestoneCount, cadenceCount, endCount)

(***************************************************************************)
(* The tick interval (App.tsx 614-617, 745, 835): n counts the intervals   *)
(* registered with the browser, ref tells whether intervalRef holds one.   *)
(***************************************************************************)
\* faulty variant: the interval held by the ref is left registered
clearIntervalNever(n, ref) == n

\* clearIntervalIfAny (App.tsx 614-617): clears the interval the ref holds
clearIntervalIfAny(n, ref) == IF ref THEN n - 1 ELSE n

\* window.setInterval (App.tsx 745, 835)
setInterval(n) == n + 1

(***************************************************************************)
(* startTimer (App.tsx 695-766), run with the closure c of the render that *)
(* created it.                                                             *)
(***************************************************************************)
startTimer(c) ==
  LET mins == clampInt(c.minutes, MinMinutes, MaxMinutes)
      startSeconds == mins * 60
      a == announce(startSeconds, c.speech, Null, startSeconds)
      s1 == stopAudio(Store)
      s2 == IF c.speech THEN dispatch(s1, "start") ELSE startBackgroundMusic(s1)
      s3 == IF a.line # NoLine THEN dispatch(s2, "speak") ELSE s2
  IN  /\ c.minutes \in InputMinutes
      /\ totalSecondsRef' = startSeconds
      /\ durationMinutes' = mins
      /\ secondsLeft' = startSeconds
      /\ isFinished' = FALSE
      /\ isRunning' = TRUE
      /\ lastSpokenRef' = a.last
      /\ Commit(s3)
      /\ recording' = (recording \/ (c.camera /\ ~c.isRecording /\ cameraStream))
      /\ intervalRef' = TRUE
      /\ tickTimers' = setInterval(clearIntervalIfAny(tickTimers, intervalRef))
      /\ tickSpeech' = c.speech
      /\ uninterrupted' = TRUE
      /\ Note((IF c.speech THEN {StartLine} ELSE {}) \cup {a.line},
              Zero(MilestoneKeys), Zero(CadenceSlots), 0)

(***************************************************************************)
(* The interval callback of startTimer and of resume (App.tsx 745-765,     *)
(* 835-855).                                                               *)
(***************************************************************************)
\* faulty variant: the updater's decrement is applied twice
nextSecondsTwice(prev) == prev - 2

\* const next = prev - 1 (App.tsx 747, 837)
nextSeconds(prev) == prev - 1

\* faulty variant: the callback waits for the speech requests to settle
tickReadyAfterSpeech == intervalRef /\ ~pendingStart /\ Total(fetching) = 0

\* the callback runs while the interval of App.tsx 745 / 835 is registered; a
\* zero-delay timer set earlier (App.tsx 797) runs before it
tickReady == intervalRef /\ ~pendingStart

Tick ==
  LET next == nextSeconds(secondsLeft)
      a == announce(next, tickSpeech, lastSpokenRef, totalSecondsRef)
  IN  /\ tickReady
      /\ IF next <= 0
           THEN /\ Commit(IF tickSpeech
                            THEN dispatch(stopBackgroundMusic(Store), "speak")
                            ELSE stopBackgroundMusic(Store))
                /\ intervalRef' = FALSE
                /\ tickTimers' = clearIntervalIfAny(tickTimers, intervalRef)
                /\ isRunning' = FALSE
                /\ isFinished' = TRUE
                /\ recording' = FALSE
                /\ secondsLeft' = 0
                /\ NoteSame(IF tickSpeech THEN {FinishLine} ELSE {})
                /\ UNCHANGED <<lastSpokenRef, tickSpeech>>
           ELSE /\ Commit(IF a.line # NoLine THEN dispatch(Store, "speak") ELSE Store)
                /\ lastSpokenRef' = a.last
                /\ secondsLeft' = next
                /\ NoteSame({a.line})
                /\ UNCHANGED <<intervalRef, tickTimers, isRunning, isFinished, recording, tickSpeech>>
      /\ UNCHANGED <<minutesInput, durationMinutes, waitSeconds, isWaiting, waitSecondsLeft,
                     voicesLoad, cameraStream, waitIntervalRef, pendingStart,
                     startClosure, totalSecondsRef, hasWebAudio, uninterrupted>>

(***************************************************************************)
(* start (App.tsx 768-805) and its wait countdown.                         *)
(***************************************************************************)
\* unlockAudio (App.tsx 659-693): the music pipeline at gain 0, and a silent
\* play on the shared voice element, which reloads it
unlockAudio(s) ==
  LET s1 == AbortPlay(s)
  IN  IF hasWebAudio
        THEN [s1 EXCEPT !.bgAudio = "playing", !.bgCtx = TRUE, !.bgGain = "zero"]
        ELSE s1

Start ==
  /\ isReady
  /\ waitSeconds = 0
  /\ startTimer(Closure)
  /\ UNCHANGED <<minutesInput, waitSeconds, isWaiting, waitSecondsLeft, voicesLoad,
                 cameraStream, waitIntervalRef, pendingStart, startClosure, hasWebAudio>>

StartWithWait ==
  /\ isReady
  /\ waitSeconds # 0
  /\ minutesInput \in InputMinutes
  /\ Commit(unlockAudio(Store))
  /\ isWaiting' = TRUE
  /\ waitSecondsLeft' = waitSeconds
  /\ waitIntervalRef' = TRUE
  /\ startClosure' = Closure
  /\ NoteSame({})
  /\ UNCHANGED <<minutesInput, durationMinutes, secondsLeft, isRunning, isFinished,
                 waitSeconds, voicesLoad, cameraStream, recording, intervalRef, tickTimers,
                 tickSpeech,
                 pendingStart, lastSpokenRef, totalSecondsRef, hasWebAudio, uninterrupted>>

WaitTick ==
  LET next == waitSecondsLeft - 1
  IN  /\ waitIntervalRef
      /\ ~pendingStart
      /\ IF next <= 0
           THEN /\ waitIntervalRef' = FALSE
                /\ isWaiting' = FALSE
                /\ pendingStart' = TRUE
                /\ waitSecondsLeft' = 0
           ELSE /\ waitSecondsLeft' = next
                /\ UNCHANGED <<waitIntervalRef, isWaiting, pendingStart>>
      /\ Commit(Store)
      /\ NoteSame({})
      /\ UNCHANGED <<minutesInput, durationMinutes, secondsLeft, isRunning, isFinished,
                     waitSeconds, voicesLoad, cameraStream, recording, intervalRef,
                     tickTimers,
                     tickSpeech, startClosure, lastSpokenRef, totalSecondsRef, hasWebAudio,
                     uninterrupted>>

\* setTimeout(() => startTimer(), 0) fires
DeferredStart ==
  /\ pendingStart
  /\ pendingStart' = FALSE
  /\ startClosure' = NoClosure
  /\ startTimer(startClosure)
  /\ UNCHANGED <<minutesInput, waitSeconds, isWaiting, waitSecondsLeft, voicesLoad,
                 cameraStream, waitIntervalRef, hasWebAudio>>

(***************************************************************************)
(* pause, resume, reset, stopAndClear (App.tsx 807-881).                   *)
(***************************************************************************)
pause(s) == pauseBackgroundMusic(stopAudio(s))

Pause ==
  /\ isRunning
  /\ isRunning' = FALSE
  /\ intervalRef' = FALSE
  /\ tickTimers' = clearIntervalIfAny(tickTimers, intervalRef)
  /\ Commit(pause(Store))
  /\ tickSpeech' = TRUE
  /\ uninterrupted' = FALSE
  /\ NoteSame({})
  /\ UNCHANGED <<minutesInput, durationMinutes, secondsLeft, isFinished, waitSeconds,
                 isWaiting, waitSecondsLeft, voicesLoad, cameraStream, recording,
                 waitIntervalRef, pendingStart, startClosure, lastSpokenRef,
                 totalSecondsRef, hasWebAudio>>

Resume ==
  LET a == announce(secondsLeft, speechEnabled, lastSpokenRef, totalSecondsRef)
      s1 == resumeBackgroundMusic(Store)
  IN  /\ isPaused
      /\ secondsLeft > 0
      /\ isRunning' = TRUE
      /\ Commit(IF a.line # NoLine THEN dispatch(s1, "speak") ELSE s1)
      /\ lastSpokenRef' = a.last
      /\ intervalRef' = TRUE
      /\ tickTimers' = setInterval(clearIntervalIfAny(tickTimers, intervalRef))
      /\ tickSpeech' = speechEnabled
      /\ NoteSame({a.line})
      /\ UNCHANGED <<minutesInput, durationMinutes, secondsLeft, isFinished, waitSeconds,
                     isWaiting, waitSecondsLeft, voicesLoad, cameraStream, recording,
                     waitIntervalRef, pendingStart, startClosure, totalSecondsRef,
                     hasWebAudio, uninterrupted>>

Reset ==
  /\ ~isRunning /\ ~isWaiting
  /\ isPaused \/ isFinished
  /\ waitIntervalRef' = FALSE
  /\ isWaiting' = FALSE
  /\ waitSecondsLeft' = 0
  /\ isRunning' = FALSE
  /\ intervalRef' = FALSE
  /\ tickTimers' = clearIntervalIfAny(tickTimers, intervalRef)
  /\ Commit(pause(Store))
  /\ isFinished' = FALSE
  /\ secondsLeft' = durationMinutes * 60
  /\ lastSpokenRef' = Null
  /\ tickSpeech' = TRUE
  /\ uninterrupted' = FALSE
  /\ Note({}, Zero(MilestoneKeys), Zero(CadenceSlots), 0)
  /\ UNCHANGED <<minutesInput, durationMinutes, waitSeconds, voicesLoad, cameraStream,
                 recording, pendingStart, startClosure, totalSecondsRef, hasWebAudio>>

StopAndClear ==
  /\ isRunning \/ isWaiting
  /\ waitIntervalRef' = FALSE
  /\ isWaiting' = FALSE
  /\ waitSecondsLeft' = 0
  /\ isRunning' = FALSE
  /\ intervalRef' = FALSE
  /\ tickTimers' = clearIntervalIfAny(tickTimers, intervalRef)
  /\ Commit(stopBackgroundMusic(pause(Store)))
  /\ isFinished' = FALSE
  /\ secondsLeft' = durationMinutes * 60
  /\ lastSpokenRef' = Null
  /\ recording' = FALSE
  /\ startClosure' = IF pendingStart THEN startClosure ELSE NoClosure
  /\ tickSpeech' = TRUE
  /\ uninterrupted' = FALSE
  /\ Note({}, Zero(MilestoneKeys), Zero(CadenceSlots), 0)
  /\ UNCHANGED <<minutesInput, durationMinutes, waitSeconds, voicesLoad, cameraStream,
                 pendingStart, totalSecondsRef, hasWebAudio>>

(***************************************************************************)
(* The other controls of the page (App.tsx 1055-1168, 1237-1263) and       *)
(* loadVoices (App.tsx 212-253).                                           *)
(***************************************************************************)
timerFrame ==
  <<durationMinutes, secondsLeft, isRunning, isFinished, isWaiting, waitSecondsLeft,
    intervalRef, tickTimers, tickSpeech, waitIntervalRef, pendingStart, startClosure,
    lastSpokenRef,
    totalSecondsRef, hasWebAudio, uninterrupted>>

SetMinutesInput ==
  /\ ~isRunning /\ ~isWaiting
  /\ \E m \in InputMinutes : minutesInput' = m
  /\ Commit(Store)
  /\ NoteSame({})
  /\ UNCHANGED <<timerFrame, waitSeconds, voicesLoad, cameraStream, recording>>

SetWaitSeconds ==
  /\ ~isRunning /\ ~isWaiting
  /\ \E w \in WaitChoices : waitSeconds' = w
  /\ Commit(Store)
  /\ NoteSame({})
  /\ UNCHANGED <<timerFrame, minutesInput, voicesLoad, cameraStream, recording>>

\* the "Test voice" button: speakWithSettings of the current render
TestVoice ==
  /\ speechEnabled
  /\ Commit(dispatch(Store, "speak"))
  /\ NoteSame({PreviewLine})
  /\ UNCHANGED <<timerFrame, minutesInput, waitSeconds, voicesLoad, cameraStream, recording>>

LoadVoicesOk ==
  /\ voicesLoad = "loading"
  /\ voicesLoad' = "ok"
  /\ Commit(Store)
  /\ NoteSame({})
  /\ UNCHANGED <<timerFrame, minutesInput, waitSeconds, cameraStream, recording>>

LoadVoicesFail ==
  /\ voicesLoad = "loading"
  /\ voicesLoad' = "failed"
  /\ Commit(disableSpeech(Store))
  /\ NoteSame({})
  /\ UNCHANGED <<timerFrame, minutesInput, waitSeconds, cameraStream, recording>>

EnableCamera ==
  /\ ~cameraStream
  /\ cameraStream' = TRUE
  /\ Commit(Store)
  /\ NoteSame({})
  /\ UNCHANGED <<timerFrame, minutesInput, waitSeconds, voicesLoad, recording>>

DisableCamera ==
  /\ cameraStream
  /\ cameraStream' = FALSE
  /\ recording' = FALSE
  /\ Commit(Store)
  /\ NoteSame({})
  /\ UNCHANGED <<timerFrame, minutesInput, waitSeconds, voicesLoad>>

\* the "Start Recording" button (App.tsx 528-558, 1249-1255)
StartRecording ==
  /\ cameraStream /\ ~recording
  /\ recording' = TRUE
  /\ Commit(Store)
  /\ NoteSame({})
  /\ UNCHANGED <<timerFrame, minutesInput, waitSeconds, voicesLoad, cameraStream>>

\* the "Stop Recording" button (App.tsx 560-564, 1257-1262)
StopRecording ==
  /\ recording
  /\ recording' = FALSE
  /\ Commit(Store)
  /\ NoteSame({})
  /\ UNCHANGED <<timerFrame, minutesInput, waitSeconds, voicesLoad, cameraStream>>

(***************************************************************************)
(* What happens to a speak attempt after it was dispatched: getTtsBlob     *)
(* settles, the 120 ms timer of playBlob fires, the element starts, ends   *)
(* or fails (App.tsx 398-432, 587-612, 717-731).                           *)
(***************************************************************************)
attemptFrame ==
  <<timerFrame, minutesInput, waitSeconds, voicesLoad, cameraStream, recording>>

PendingTimers ==
  TimerTotal(staleTimers) + (IF owner # "none" /\ ownerStage = "timer" THEN 1 ELSE 0)

FetchResolved ==
  \E k \in Kinds :
    /\ fetching[k] > 0
    /\ PendingTimers < MaxTimers
    /\ Commit(playBlob([Store EXCEPT !.fetching[k] = @ - 1], k))
    /\ NoteSame({})
    /\ UNCHANGED attemptFrame

FetchRejected ==
  \E k \in Kinds :
    /\ fetching[k] > 0
    /\ Commit([Store EXCEPT !.fetching[k] = @ - 1, !.rejected[k] = @ + 1])
    /\ NoteSame({})
    /\ UNCHANGED attemptFrame

\* audio.play() of a timer: on a playing element it resolves at once
playCall(s) == IF s.elem = "playing" THEN s ELSE [s EXCEPT !.elem = "starting"]

OwnerTimer ==
  /\ owner # "none" /\ ownerStage = "timer"
  /\ Commit([playCall(Store) EXCEPT
               !.ownerStage = IF elem = "playing" THEN "started" ELSE "starting"])
  /\ NoteSame({})
  /\ UNCHANGED attemptFrame

StaleTimer ==
  \E k \in TimerKinds :
    /\ staleTimers[k] > 0
    /\ Commit([playCall(Store) EXCEPT
                 !.staleTimers[k] = @ - 1,
                 !.playPending = IF elem # "playing" /\ k # "done"
                                   THEN [playPending EXCEPT ![k] = @ + 1]
                                   ELSE playPending])
    /\ NoteSame({})
    /\ UNCHANGED attemptFrame

\* playback begins: the pending play() promises resolve
PlayStarts ==
  /\ elem = "starting"
  /\ Commit([Store EXCEPT
               !.elem = "playing",
               !.playPending = Zero(Kinds),
               !.ownerStage = IF ownerStage = "starting" THEN "started" ELSE ownerStage])
  /\ NoteSame({})
  /\ UNCHANGED attemptFrame

\* play() is refused (autoplay policy): the pending promises are rejected
PlayRejected ==
  /\ elem = "starting"
  /\ Commit(AbortPlay(Store))
  /\ NoteSame({})
  /\ UNCHANGED attemptFrame

\* the handlers' promise is resolved; a timer of its own that is still pending
\* stays behind
resolveOwner(s) ==
  IF s.owner = "none" THEN s
  ELSE attemptResolved(
         [s EXCEPT !.owner = "none", !.ownerStage = "timer",
                   !.staleTimers = IF s.ownerStage = "timer"
                                     THEN [s.staleTimers EXCEPT !["done"] = @ + 1]
                                     ELSE s.staleTimers],
         s.owner)

\* audio.onended (App.tsx 409-417)
onended(s) ==
  resolveOwner(restoreBackgroundMusic([s EXCEPT !.audioRef = FALSE, !.audioUrl = FALSE]))

\* audio.onerror (App.tsx 418-425)
onerror(s) ==
  resolveOwner(restoreBackgroundMusic([s EXCEPT !.audioUrl = FALSE]))

VoiceEnded ==
  /\ elem = "playing"
  /\ Commit(onended([Store EXCEPT !.elem = "idle"]))
  /\ NoteSame({})
  /\ UNCHANGED attemptFrame

\* a media error: the error event runs first, then the play() promises still
\* pending are rejected
VoiceError ==
  /\ elem \in {"starting", "playing"}
  /\ Commit(AbortPlay(onerror(Store)))
  /\ NoteSame({})
  /\ UNCHANGED attemptFrame

(***************************************************************************)
(* Prefetch (App.tsx 495-497, 571-585). A loop is known by the prefetchId  *)
(* it drew; it stands at "get" while its getTtsBlob is awaited and at      *)
(* "sleep" during the 40 ms that follow.                                   *)
(***************************************************************************)
MaxEpoch == 3
MaxLines == 2

Epochs == 1..MaxEpoch
LoopEnd(why) == [pc |-> why, i |-> 0]

\* faulty variant: the loop never looks at the token
tokenCurrentAlways(prefetchId, current) == TRUE

\* prefetchIdRef.current !== prefetchId (App.tsx 574), negated
tokenCurrent(prefetchId, current) == current = prefetchId

\* the head of an iteration up to the await of getTtsBlob (App.tsx 573-578),
\* for the i-th of the lines; ttsModeRef is "kokoro" throughout
iterate(prefetchId, i, current, speechRef) ==
  IF i > MaxLines THEN LoopEnd("done")
  ELSE IF ~tokenCurrent(prefetchId, current) THEN LoopEnd("abandoned")
  ELSE IF ~speechRef THEN LoopEnd("muted")
  ELSE [pc |-> "get", i |-> i]

\* cancelPrefetch (App.tsx 495-497), as reset, stop and startTimer call it
CancelPrefetch ==
  /\ prefetchIdRef < MaxEpoch
  /\ prefetchIdRef' = prefetchIdRef + 1
  /\ UNCHANGED <<loops, cacheVars, sessionVars, serverVars, utilVars>>

\* prefetchLines (App.tsx 571-578), as startTimer, start and resume call it:
\* a new prefetchId and the first iteration, which runs at once
PrefetchLines ==
  /\ prefetchIdRef < MaxEpoch
  /\ LET prefetchId == prefetchIdRef + 1
     IN  /\ prefetchIdRef' = prefetchId
         /\ loops' = [loops EXCEPT
                        ![prefetchId] = iterate(prefetchId, 1, prefetchId, speechEnabled)]
  /\ UNCHANGED <<cacheVars, sessionVars, serverVars, utilVars>>

\* getTtsBlob settles; a rejection is caught and ignored (App.tsx 578-582)
PrefetchSettled ==
  \E l \in Epochs :
    /\ loops[l].pc = "get"
    /\ loops' = [loops EXCEPT ![l].pc = "sleep"]
    /\ UNCHANGED <<prefetchIdRef, cacheVars, sessionVars, serverVars, utilVars>>

\* the 40 ms are over (App.tsx 583): the next iteration begins
PrefetchWake ==
  \E l \in Epochs :
    /\ loops[l].pc = "sleep"
    /\ loops' = [loops EXCEPT
                   ![l] = iterate(l, loops[l].i + 1, prefetchIdRef, speechEnabled)]
    /\ UNCHANGED <<prefetchIdRef, cacheVars, sessionVars, serverVars, utilVars>>

InitPrefetch ==
  /\ prefetchIdRef = 0
  /\ loops = [l \in Epochs |-> LoopEnd("none")]

(***************************************************************************)
(* The prefetch loop together with the cache it warms (App.tsx 469-493,    *)
(* 571-585): the i-th line of the list has the cache key LineKey(i), and   *)
(* live speaks call getTtsBlob beside the loops.                           *)
(***************************************************************************)
LineKey(i) == i

\* faulty variant: a rejected getTtsBlob ends the loop
resumeStopsOnFailure(ok) == IF ok THEN "sleep" ELSE "failed"

\* where the loop stands once the await of getTtsBlob is over: the catch
\* block is empty, so either way it goes on to the 40 ms sleep (App.tsx
\* 577-583)
resumeAfterGet(ok) == "sleep"

\* the head of the i-th iteration of loop l with its call of getTtsBlob
\* (App.tsx 573-578); a cache hit returns at once and the sleep begins
WarmIterate(l, i, current) ==
  LET nxt == iterate(l, i, current, speechEnabled)
  IN  IF nxt.pc = "get"
        THEN /\ GetTtsBlob(LineKey(i))
             /\ loops' = [loops EXCEPT
                            ![l] = IF LineKey(i) \in SeqToSet(ttsCache)
                                     THEN [pc |-> resumeAfterGet(TRUE), i |-> i]
                                     ELSE nxt]
        ELSE /\ loops' = [loops EXCEPT ![l] = nxt]
             /\ UNCHANGED cacheVars

\* the loops awaiting key k resume when its request settles (App.tsx 578-583)
WarmResume(k, ok) ==
  loops' = [l \in Epochs |->
              IF loops[l].pc = "get" /\ LineKey(loops[l].i) = k
                THEN [loops[l] EXCEPT !.pc = resumeAfterGet(ok)]
                ELSE loops[l]]

\* prefetchLines (App.tsx 571-578)
WarmLines ==
  /\ prefetchIdRef < MaxEpoch
  /\ prefetchIdRef' = prefetchIdRef + 1
  /\ WarmIterate(prefetchIdRef + 1, 1, prefetchIdRef + 1)
  /\ UNCHANGED <<sessionVars, serverVars, utilVars>>

\* the 40 ms are over (App.tsx 583): the next iteration begins
WarmWake ==
  \E l \in Epochs :
    /\ loops[l].pc = "sleep"
    /\ WarmIterate(l, loops[l].i + 1, prefetchIdRef)
    /\ UNCHANGED <<prefetchIdRef, sessionVars, serverVars, utilVars>>

\* a live speak calls getTtsBlob (App.tsx 587-589)
WarmLiveGet ==
  /\ \E k \in Keys : GetTtsBlob(k)
  /\ UNCHANGED <<prefetchVars, sessionVars, serverVars, utilVars>>

WarmStaticHit ==
  /\ \E k \in Keys : StaticHit(k) /\ WarmResume(k, TRUE)
  /\ UNCHANGED <<prefetchIdRef, sessionVars, serverVars, utilVars>>

WarmStaticMiss ==
  /\ \E k \in Keys : StaticMiss(k)
  /\ UNCHANGED <<prefetchVars, sessionVars, serverVars, utilVars>>

WarmApiOk ==
  /\ \E k \in Keys : ApiOk(k) /\ WarmResume(k, TRUE)
  /\ UNCHANGED <<prefetchIdRef, sessionVars, serverVars, utilVars>>

WarmApiFail ==
  /\ \E k \in Keys : ApiFail(k) /\ WarmResume(k, FALSE)
  /\ UNCHANGED <<prefetchIdRef, sessionVars, serverVars, utilVars>>

(***************************************************************************)
(* POST /api/tts (server/index.mjs 74-126; api/tts.js, the same code as a  *)
(* serverless handler). Requests reach the handler already validated; any  *)
(* number of clients may send them.                                        *)
(***************************************************************************)
SrvCapacity == 2
MaxCalls == 2

SrvKeys(c) == {c[i].key : i \in 1..Len(c)}
SrvDrop(c, k) == SelectSeq(c, LAMBDA e : e.key # k)
SrvFresh(c, k) == \E i \in 1..Len(c) : c[i].key = k /\ c[i].fresh
Fresh(k) == [key |-> k, fresh |-> TRUE]

\* getCache (server/index.mjs 38-48): an expired entry is deleted, a fresh
\* one is deleted and set again, which makes it the newest of the Map
getCache(c, k) ==
  IF k \notin SrvKeys(c) THEN [cache |-> c, hit |-> FALSE]
  ELSE IF ~SrvFresh(c, k) THEN [cache |-> SrvDrop(c, k), hit |-> FALSE]
  ELSE [cache |-> Append(SrvDrop(c, k), Fresh(k)), hit |-> TRUE]

\* setCache (server/index.mjs 50-55): Map.set keeps the place of a key it
\* holds; over the limit the first key goes
setCache(c, k) ==
  LET c1 == IF k \in SrvKeys(c)
              THEN [i \in 1..Len(c) |-> IF c[i].key = k THEN Fresh(k) ELSE c[i]]
              ELSE Append(c, Fresh(k))
  IN  IF Len(c1) <= SrvCapacity THEN c1 ELSE Tail(c1)

\* the handler up to `await fetch(HF_TTS_URL, ...)` (server/index.mjs 74-103)
SrvRequest ==
  \E k \in Keys :
    LET g == getCache(srvCache, k)
    IN  /\ g.hit \/ srvCalls[k] < MaxCalls
        /\ srvCache' = g.cache
        /\ srvCalls' = IF g.hit THEN srvCalls ELSE [srvCalls EXCEPT ![k] = @ + 1]
        /\ UNCHANGED <<srvBorn, cacheVars, sessionVars, prefetchVars, utilVars>>

\* the provider answers with audio (server/index.mjs 118-125)
SrvProviderOk ==
  \E k \in Keys :
    /\ srvCalls[k] > 0
    /\ srvCalls' = [srvCalls EXCEPT ![k] = @ - 1]
    /\ srvCache' = setCache(srvCache, k)
    /\ srvBorn' = SelectSeq(Append(RemoveKey(srvBorn, k), k),
                            LAMBDA x : SrvFresh(srvCache', x))
    /\ UNCHANGED <<cacheVars, sessionVars, prefetchVars, utilVars>>

\* the provider answers with an error status (server/index.mjs 113-116)
SrvProviderFail ==
  \E k \in Keys :
    /\ srvCalls[k] > 0
    /\ srvCalls' = [srvCalls EXCEPT ![k] = @ - 1]
    /\ UNCHANGED <<srvCache, srvBorn, cacheVars, sessionVars, prefetchVars, utilVars>>

\* time passes CACHE_TTL_MS after the oldest fresh entry was set:
\* entry.expiresAt <= Date.now() from now on (server/index.mjs 41)
SrvExpire ==
  /\ srvBorn # <<>>
  /\ srvBorn' = Tail(srvBorn)
  /\ srvCache' = [i \in 1..Len(srvCache) |->
                    IF srvCache[i].key = Head(srvBorn)
                      THEN [srvCache[i] EXCEPT !.fresh = FALSE]
                      ELSE srvCache[i]]
  /\ UNCHANGED <<srvCalls, cacheVars, sessionVars, prefetchVars, utilVars>>

InitServer ==
  /\ srvCache = <<>>
  /\ srvBorn = <<>>
  /\ srvCalls = [k \in Keys |-> 0]

(***************************************************************************)
(* ttsUtils applied to drawn arguments: computeMilestones and              *)
(* buildPrefetchLines on a session length (App.tsx 1664-1711). A line is   *)
(* known by its key; the cadence key t{elapsed} is the pair "t", elapsed.  *)
(***************************************************************************)
MaxTotalSeconds == 130

Line(key, at) == [key |-> key, at |-> at]

\* faulty variant: the slot at 0 is dropped for the multiples of 30
skipZeroInverted(elapsed, total) == elapsed = 0 /\ total % CadenceSeconds = 0

\* faulty variant: the slot at 0 is always dropped
skipZeroAlways(elapsed, total) == elapsed = 0

\* elapsed === 0 && totalSeconds % 30 !== 0 (App.tsx 1703)
skipZero(elapsed, total) == elapsed = 0 /\ total % CadenceSeconds # 0

\* the cadence loop from elapsed on (App.tsx 1702-1708)
RECURSIVE cadenceLines(_, _, _)
cadenceLines(elapsed, total, milestoneSet) ==
  IF ~(elapsed < total) THEN <<>>
  ELSE LET rest == cadenceLines(elapsed + CadenceSeconds, total, milestoneSet)
       IN  IF skipZero(elapsed, total) THEN rest
           ELSE IF elapsed \in milestoneSet THEN rest
           ELSE <<Line("t", elapsed)>> \o rest

\* buildPrefetchLines (App.tsx 1690-1711), the keys of the lines in order
buildPrefetchLines(total) ==
  LET milestones == computeMilestones(total)
      milestoneSet == {milestones[i].elapsed : i \in 1..Len(milestones)}
  IN  <<Line("start", 0), Line("end", 0)>>
        \o [i \in 1..Len(milestones) |-> Line(milestones[i].key, 0)]
        \o cadenceLines(0, total, milestoneSet)

(***************************************************************************)
(* The texts of the lines. A milestone's text is fixed by its key          *)
(* (App.tsx 1664-1688); a motivation line is the bank entry of an index    *)
(* followed by the activity (App.tsx 1619-1621, 1657-1662), so with one    *)
(* activity it is known by the index of its bank entry.                    *)
(***************************************************************************)
MOTIVATION_BANK_LENGTH == 108

\* pickMotivation (App.tsx 1619-1621), the entry known by its index
pickMotivation(i) == i % MOTIVATION_BANK_LENGTH

MilestoneText(key) == [kind |-> "milestone", key |-> key, entry |-> 0]
MotivationText(entry) == [kind |-> "motivation", key |-> "", entry |-> entry]

\* the text of a line of buildPrefetchLines (App.tsx 1696-1707); the start
\* and end lines are drawn at random from their banks
LineText(l) ==
  IF l.key = "t"
    THEN MotivationText((l.at \div CadenceSeconds) % MOTIVATION_BANK_LENGTH)
    ELSE IF l.key \in MilestoneKeys THEN MilestoneText(l.key)
    ELSE [kind |-> l.key, key |-> "", entry |-> 0]

\* the text announce hands to speakWithSettings for the line it chose
\* (App.tsx 633, 639, 649-651)
announceText(line, ts) ==
  IF line.key = "cadence"
    THEN MotivationText(pickMotivation((ts - line.sl) \div CadenceSeconds))
    ELSE MilestoneText(line.key)

SecondsInputs == {[kind |-> "seconds", n |-> n] : n \in 0..MaxTotalSeconds}

utilFrame == <<input, cacheVars, sessionVars, prefetchVars, serverVars>>

ApplyComputeMilestones ==
  /\ applied = "none"
  /\ input.kind = "seconds"
  /\ output' = computeMilestones(input.n)
  /\ applied' = "computeMilestones"
  /\ UNCHANGED utilFrame

ApplyBuildPrefetchLines ==
  /\ applied = "none"
  /\ input.kind = "seconds"
  /\ output' = buildPrefetchLines(input.n)
  /\ applied' = "buildPrefetchLines"
  /\ UNCHANGED utilFrame

(***************************************************************************)
(* approximateWordCount and padShortUtterance (App.tsx 1461-1462,          *)
(* 1594-1608). A text is the sequence of its characters.                   *)
(***************************************************************************)
SHORT_UTTERANCE_MIN_WORDS == 10
SHORT_UTTERANCE_PAD == <<" ", "K", "e", "e", "p", " ", "g", "o", "i", "n", "g", ".">>

MaxWords == 11     \* words of a drawn text: 0..MaxWords
MaxGap == 2        \* whitespace characters between two words: 1..MaxGap
MaxMargin == 1     \* whitespace characters before and after: 0..MaxMargin

IsSpace(c) == c = " "

RECURSIVE TrimStart(_)
TrimStart(s) == IF s # <<>> /\ IsSpace(Head(s)) THEN TrimStart(Tail(s)) ELSE s

RECURSIVE TrimEnd(_)
TrimEnd(s) ==
  IF s # <<>> /\ IsSpace(s[Len(s)]) THEN TrimEnd(SubSeq(s, 1, Len(s) - 1)) ELSE s

\* String.prototype.trim
trim(s) == TrimEnd(TrimStart(s))

\* the index of the last character before the first whitespace at or after i
RECURSIVE WordEnd(_, _)
WordEnd(s, i) == IF i > Len(s) \/ IsSpace(s[i]) THEN i - 1 ELSE WordEnd(s, i + 1)

\* s.split(/\s+/) for a text that does not end in whitespace
RECURSIVE split(_)
split(s) ==
  IF s = <<>> THEN <<>>
  ELSE LET e == WordEnd(s, 1)
       IN  <<SubSeq(s, 1, e)>> \o split(TrimStart(SubSeq(s, e + 1, Len(s))))

\* approximateWordCount (App.tsx 1594-1598)
approximateWordCount(text) ==
  LET trimmed == trim(text)
  IN  IF trimmed = <<>> THEN 0 ELSE Len(split(trimmed))

\* faulty variant: a text of exactly the minimum is padded too
needsPadInclusive(result) == approximateWordCount(result) <= SHORT_UTTERANCE_MIN_WORDS

\* the condition of the while loop (App.tsx 1604)
needsPad(result) == approximateWordCount(result) < SHORT_UTTERANCE_MIN_WORDS

\* the while loop (App.tsx 1604-1606)
RECURSIVE padLoop(_)
padLoop(result) == IF needsPad(result) THEN padLoop(result \o SHORT_UTTERANCE_PAD) ELSE result

\* padShortUtterance (App.tsx 1600-1608)
padShortUtterance(text) ==
  LET trimmed == trim(text)
  IN  IF trimmed = <<>> THEN text ELSE padLoop(trimmed)

Spaces(n) == [i \in 1..n |-> " "]

\* w one-letter words with g whitespace characters between neighbours
RECURSIVE Words(_, _)
Words(w, g) ==
  IF w = 0 THEN <<>>
  ELSE IF w = 1 THEN <<"a">>
  ELSE <<"a">> \o Spaces(g) \o Words(w - 1, g)

TextInputs ==
  {[kind |-> "text", text |-> Spaces(l) \o Words(w, g) \o Spaces(r)] :
     l \in 0..MaxMargin, w \in 0..MaxWords, g \in 1..MaxGap, r \in 0..MaxMargin}

ApplyPadShortUtterance ==
  /\ applied = "none"
  /\ input.kind = "text"
  /\ output' = padShortUtterance(input.text)
  /\ applied' = "padShortUtterance"
  /\ UNCHANGED utilFrame

\* padShortUtterance applied to its own result
ApplyPadAgain ==
  /\ applied = "padShortUtterance"
  /\ output' = padShortUtterance(output)
  /\ applied' = "padShortUtterance twice"
  /\ UNCHANGED utilFrame

(***************************************************************************)
(* The duration a start derives from the text of the duration field:       *)
(* clampInt(parseInt(minutesInput, 10), 1, 15) * 60 (App.tsx 696-697,      *)
(* 1577-1580). A number is NaN or a value counted in tenths.               *)
(***************************************************************************)
MaxWhole == 17     \* the integer part of a typed duration: 0..MaxWhole

NaN == [finite |-> FALSE, tenths |-> 0]
Num(n) == [finite |-> TRUE, tenths |-> 10 * n]

DigitChars == <<"0", "1", "2", "3", "4", "5", "6", "7", "8", "9">>
IsDigit(c) == \E d \in 1..10 : DigitChars[d] = c
DigitValue(c) == (CHOOSE d \in 1..10 : DigitChars[d] = c) - 1

\* the value of the longest prefix of decimal digits, NaN when there is none
RECURSIVE DigitsValue(_, _, _)
DigitsValue(s, acc, seen) ==
  IF s = <<>> \/ ~IsDigit(Head(s))
    THEN IF seen THEN Num(acc) ELSE NaN
    ELSE DigitsValue(Tail(s), 10 * acc + DigitValue(Head(s)), TRUE)

\* parseInt(text, 10): leading whitespace, an optional sign, then the digits
\* up to the first character that is none
parseInt(text) ==
  LET s == TrimStart(text)
      signed == s # <<>> /\ Head(s) \in {"-", "+"}
      v == DigitsValue(IF signed THEN Tail(s) ELSE s, 0, FALSE)
  IN  IF signed /\ Head(s) = "-" THEN [v EXCEPT !.tenths = -v.tenths] ELSE v

\* Math.trunc of a finite number
trunc(x) == IF x.tenths >= 0 THEN x.tenths \div 10 ELSE -((-x.tenths) \div 10)

\* clampInt on any number (App.tsx 1577-1580)
clampIntOf(n, lo, hi) == clampInt(IF n.finite THEN trunc(n) ELSE lo, lo, hi)

\* startSeconds of startTimer (App.tsx 696-697)
startSecondsOf(text) == clampIntOf(parseInt(text), MinMinutes, MaxMinutes) * 60

\* the decimal digits of n
RECURSIVE ToText(_)
ToText(n) ==
  IF n < 10 THEN <<DigitChars[n + 1]>>
  ELSE ToText(n \div 10) \o <<DigitChars[(n % 10) + 1]>>

\* what may follow the integer part in a number field: nothing, a fraction
\* or an exponent; w followed by it is worth (w * mul + add) tenths
Suffixes ==
  { [chars |-> <<>>, mul |-> 10, add |-> 0, exponent |-> FALSE],
    [chars |-> <<".", "5">>, mul |-> 10, add |-> 5, exponent |-> FALSE],
    [chars |-> <<".", "9">>, mul |-> 10, add |-> 9, exponent |-> FALSE],
    [chars |-> <<"e", "1">>, mul |-> 100, add |-> 0, exponent |-> TRUE],
    [chars |-> <<"e", "-", "1">>, mul |-> 1, add |-> 0, exponent |-> TRUE] }

\* the texts typed into the duration field, each with the number it denotes
MinutesInputs ==
  { [kind |-> "minutes",
     text |-> (IF neg THEN <<"-">> ELSE <<>>) \o ToText(w) \o x.chars,
     numeric |-> TRUE,
     exponent |-> x.exponent,
     tenths |-> (IF neg THEN -1 ELSE 1) * (w * x.mul + x.add)] :
      neg \in BOOLEAN, w \in 0..MaxWhole, x \in Suffixes }
  \cup
  { [kind |-> "minutes", text |-> s, numeric |-> FALSE, exponent |-> FALSE, tenths |-> 0] :
      s \in {<<>>, <<"a", "b", "c">>} }

\* the duration startTimer would fix for the typed text
ApplyStartSeconds ==
  /\ applied = "none"
  /\ input.kind = "minutes"
  /\ output' = startSecondsOf(input.text)
  /\ applied' = "startSeconds"
  /\ UNCHANGED utilFrame

(***************************************************************************)
(* The session specification.                                              *)
(***************************************************************************)
InitSession ==
  /\ minutesInput = DEFAULT_MINUTES
  /\ durationMinutes = DEFAULT_MINUTES
  /\ secondsLeft = DEFAULT_MINUTES * 60
  /\ isRunning = FALSE
  /\ isFinished = FALSE
  /\ waitSeconds = 0
  /\ isWaiting = FALSE
  /\ waitSecondsLeft = 0
  /\ speechEnabled = TRUE
  /\ ttsMuted = FALSE
  /\ voicesLoad = "loading"
  /\ cameraStream = FALSE
  /\ recording = FALSE
  /\ intervalRef = FALSE
  /\ tickTimers = 0
  /\ tickSpeech = TRUE
  /\ waitIntervalRef = FALSE
  /\ pendingStart = FALSE
  /\ startClosure = NoClosure
  /\ lastSpokenRef = Null
  /\ totalSecondsRef = DEFAULT_MINUTES * 60
  /\ ttsFailCount = 0
  /\ fetching = Zero(Kinds)
  /\ audioRef = FALSE
  /\ audioUrl = FALSE
  /\ elem = "idle"
  /\ owner = "none"
  /\ ownerStage = "timer"
  /\ staleTimers = Zero(TimerKinds)
  /\ playPending = Zero(Kinds)
  /\ hasWebAudio = TRUE
  /\ bgAudio = "none"
  /\ bgCtx = FALSE
  /\ bgGain = "normal"
  /\ milestoneCount = Zero(MilestoneKeys)
  /\ cadenceCount = Zero(CadenceSlots)
  /\ endCount = 0
  /\ uninterrupted = FALSE
  /\ failRun = 0
  /\ maxFailRun = 0

\* no helper call is under way
InitUtil ==
  /\ input = [kind |-> "none"]
  /\ output = <<>>
  /\ applied = "none"

Init == InitCache /\ InitSession /\ InitPrefetch /\ InitServer /\ InitUtil

\* The timer and its controls. Speak requests are dispatched and stay pending:
\* what becomes of them is followed by SpecSpeech.
Next ==
  \/ Start
  \/ StartWithWait
  \/ WaitTick
  \/ DeferredStart
  \/ Tick
  \/ Pause
  \/ Resume
  \/ Reset
  \/ StopAndClear
  \/ SetMinutesInput
  \/ SetWaitSeconds
  \/ LoadVoicesOk
  \/ LoadVoicesFail
  \/ EnableCamera
  \/ DisableCamera
  \/ StartRecording
  \/ StopRecording

Spec == Init /\ [][Next]_vars

\* The speak attempts, with the controls that need no tick.
NextSpeech ==
  \/ Start
  \/ Pause
  \/ StopAndClear
  \/ SetMinutesInput
  \/ TestVoice
  \/ LoadVoicesOk
  \/ LoadVoicesFail
  \/ FetchResolved
  \/ FetchRejected
  \/ OwnerTimer
  \/ StaleTimer
  \/ PlayStarts
  \/ PlayRejected
  \/ VoiceEnded
  \/ VoiceError

SpecSpeech == Init /\ [][NextSpeech]_vars

NextCache ==
  \/ CacheGet
  \/ CacheStaticHit
  \/ CacheStaticMiss
  \/ CacheApiOk
  \/ CacheApiFail

SpecCache == Init /\ [][NextCache]_vars

\* One session left to run: the tick loop together with the speak attempts
\* it dispatches. The browser fires the interval callback every second for
\* as long as the interval is registered, hence the fairness on Tick; no
\* request, timer or playback event is ever bound to happen.
NextLive ==
  \/ SetMinutesInput
  \/ Start
  \/ Tick
  \/ FetchResolved
  \/ FetchRejected
  \/ OwnerTimer
  \/ StaleTimer
  \/ PlayStarts
  \/ PlayRejected
  \/ VoiceEnded
  \/ VoiceError

\* the callback's step as the countdown shows it: Tick is enabled exactly when
\* tickReady holds and is the only step of NextLive that takes one second off
TickStep == tickReady /\ secondsLeft' = nextSeconds(secondsLeft)

SpecLive == Init /\ [][NextLive]_vars /\ WF_secondsLeft(TickStep)

\* A session that may be paused once the first tick has passed (an earlier
\* pause leaves the page ready, not paused), with the speak attempts still
\* outstanding at that moment.
PauseAfterTick == Pause /\ secondsLeft # totalSeconds

NextPause ==
  \/ SetMinutesInput
  \/ Start
  \/ Tick
  \/ PauseAfterTick
  \/ FetchResolved
  \/ FetchRejected
  \/ OwnerTimer
  \/ StaleTimer
  \/ PlayStarts
  \/ PlayRejected
  \/ VoiceEnded
  \/ VoiceError

SpecPause == Init /\ [][NextPause]_vars

\* Sessions that are started and stopped, with the speak attempts still
\* outstanding at the stop; nothing else on the page speaks.
NextStop ==
  \/ SetMinutesInput
  \/ Start
  \/ StopAndClear
  \/ FetchResolved
  \/ FetchRejected
  \/ OwnerTimer
  \/ StaleTimer
  \/ PlayStarts
  \/ PlayRejected
  \/ VoiceEnded
  \/ VoiceError

SpecStop == Init /\ [][NextStop]_vars

\* "Test voice" pressed during the wait, one preview at a time
TestVoiceWaiting == TestVoice /\ isWaiting /\ Total(fetching) = 0 /\ owner = "none"

\* The pre-roll: a start with a wait, its countdown and the deferred start,
\* beside the "Test voice" button and the speak attempts.
NextWait ==
  \/ SetMinutesInput
  \/ SetWaitSeconds
  \/ StartWithWait
  \/ WaitTick
  \/ DeferredStart
  \/ TestVoiceWaiting
  \/ FetchResolved
  \/ FetchRejected
  \/ OwnerTimer
  \/ StaleTimer
  \/ PlayStarts
  \/ PlayRejected
  \/ VoiceEnded
  \/ VoiceError

SpecWait == Init /\ [][NextWait]_vars

\* The prefetch loops; speech may be switched off under them.
NextPrefetch ==
  \/ PrefetchLines
  \/ CancelPrefetch
  \/ PrefetchSettled
  \/ PrefetchWake
  \/ LoadVoicesFail

SpecPrefetch == Init /\ [][NextPrefetch]_vars

\* Prefetch loops warming the cache while live speaks use it.
NextWarm ==
  \/ WarmLines
  \/ CancelPrefetch
  \/ WarmWake
  \/ WarmLiveGet
  \/ WarmStaticHit
  \/ WarmStaticMiss
  \/ WarmApiOk
  \/ WarmApiFail
  \/ LoadVoicesFail

SpecWarm == Init /\ [][NextWarm]_vars

\* The helpers of ttsUtils, each called once on an argument drawn at the
\* start.
UtilInputs == SecondsInputs \cup TextInputs

InitUtils ==
  /\ InitCache /\ InitSession /\ InitPrefetch /\ InitServer
  /\ input \in UtilInputs
  /\ output = <<>>
  /\ applied = "none"

NextUtils ==
  \/ ApplyComputeMilestones
  \/ ApplyBuildPrefetchLines
  \/ ApplyPadShortUtterance
  \/ ApplyPadAgain

SpecUtils == InitUtils /\ [][NextUtils]_vars

\* The duration of a session: what a start makes of the text of the duration
\* field, and the sessions started and stopped.
InitMinutes ==
  /\ InitCache /\ InitSession /\ InitPrefetch /\ InitServer
  /\ input \in MinutesInputs
  /\ output = <<>>
  /\ applied = "none"

NextMinutes ==
  \/ ApplyStartSeconds
  \/ SetMinutesInput
  \/ Start
  \/ StopAndClear

SpecMinutes == InitMinutes /\ [][NextMinutes]_vars

\* The server under requests of any number of clients.
NextServer ==
  \/ SrvRequest
  \/ SrvProviderOk
  \/ SrvProviderFail
  \/ SrvExpire

SpecServer == Init /\ [][NextServer]_vars

(***************************************************************************)
(* Properties of the speech cache (SpecCache).                             *)
(***************************************************************************)
FetchOnlyWhenAbsent ==
  \A k \in Keys :
    Outstanding(k)' > Outstanding(k)
      => /\ k \notin SeqToSet(ttsCache)
         /\ k \notin ttsInFlight
         /\ Outstanding(k) = 0
         /\ Outstanding(k)' = 1

AtMostOneOutstanding ==
  \A k \in Keys :
    /\ Outstanding(k) <= 1
    /\ (waiters[k] > 0 => Outstanding(k) = 1)
    /\ (k \in ttsInFlight <=> Outstanding(k) = 1)

\* C1: a new underlying fetch is issued only for a key that is neither in the
\* cache nor in the in-flight map; so at most one request per key is
\* outstanding at any time, and every caller that waits on a key waits on that
\* one request.
C1_OneFetchPerKey == []AtMostOneOutstanding /\ [][FetchOnlyWhenAbsent]_vars

\* two callers wait on one key and exactly one fetch is outstanding for it
C1_Witness ==
  \E k \in Keys : waiters[k] = 2 /\ Outstanding(k) = 1 /\ k \in ttsInFlight

\* the request for k fails in this step
FetchFails(k) == apiPending'[k] < apiPending[k] /\ lastResult'[k] = "rejected"

\* C17: when the fetch for a key fails every waiting caller is rejected, the
\* in-flight entry is removed and the cache holds no entry for the key, so
\* that the next getTtsBlob for the key starts a new fetch.
C17_NoNegativeCaching ==
  [][\A k \in Keys :
       FetchFails(k) =>
         /\ waiters'[k] = 0
         /\ k \notin ttsInFlight'
         /\ k \notin SeqToSet(ttsCache')
         /\ NeedsFetch(k)']_vars

\* a key whose last request failed is being fetched again
C17_Witness ==
  \E k \in Keys : lastResult[k] = "rejected" /\ staticPending[k] = 1 /\ k \in ttsInFlight

\* the request for k succeeds in this step
FetchSucceeds(k) ==
  /\ Outstanding(k)' < Outstanding(k)
  /\ k \notin ttsInFlight'
  /\ lastResult'[k] = "resolved"

\* a completed fetch inserts its key, which the cache did not hold, as the
\* newest entry, and when the cache was full the first key of the Map, and
\* only that one, goes; nothing else changes the cache
InsertEvictsOldest ==
  /\ \A k \in Keys :
       FetchSucceeds(k) =>
         /\ k \notin SeqToSet(ttsCache)
         /\ ttsCache' = IF Len(ttsCache) = CacheCapacity
                          THEN Append(Tail(ttsCache), k)
                          ELSE Append(ttsCache, k)
  /\ (\A k \in Keys : ~FetchSucceeds(k)) => ttsCache' = ttsCache

\* C18: the cache never holds more than its capacity, and an insertion that
\* would exceed it evicts exactly one entry, the oldest by insertion order,
\* never the one just inserted.
C18_CacheBounded ==
  /\ [](Len(ttsCache) <= CacheCapacity)
  /\ [][InsertEvictsOldest]_vars

\* the cache is full and a key fetched earlier has been evicted from it
C18_Witness ==
  /\ Len(ttsCache) = CacheCapacity
  /\ \E k \in Keys : lastResult[k] = "resolved" /\ k \notin SeqToSet(ttsCache)

\* C19: a getTtsBlob that hits the cache makes its key the most recent entry,
\* so that key is not the one evicted by the next insertion into a full cache.
C19_HitRefreshesRecency ==
  lastHit \in Keys =>
    /\ ttsCache[Len(ttsCache)] = lastHit
    /\ Len(ttsCache) = CacheCapacity => Head(ttsCache) # lastHit

(***************************************************************************)
(* Properties of the failure counter (SpecSpeech).                         *)
(***************************************************************************)
\* C2: speech is auto-disabled and the notice raised when, and only when, the
\* consecutive-failure counter reaches 3: a run of three failed attempts
\* disables speech and sets the notice, a run of one or two never does, and
\* nothing but that run (or the voices failing to load) disables speech.
C2_DisabledExactlyAtThree ==
  /\ (failRun >= FailLimit => ttsMuted /\ ~speechEnabled)
  /\ (ttsFailCount >= FailLimit => ttsMuted /\ ~speechEnabled)
  /\ (ttsMuted => maxFailRun >= FailLimit /\ ~speechEnabled)
  /\ (~speechEnabled => ttsMuted \/ voicesLoad = "failed")

\* the third failure in a row has just disabled speech
C2_Witness ==
  failRun = FailLimit /\ ttsFailCount = FailLimit /\ ttsMuted /\ ~speechEnabled

\* C3: a successful attempt resets the consecutive-failure counter to zero (the
\* counter is the number of failures since the last success), so as long as no
\* run of failures has reached three the speech is not auto-disabled.
C3_SuccessResetsCounter ==
  /\ ttsFailCount = failRun
  /\ (maxFailRun < FailLimit => ~ttsMuted /\ (speechEnabled \/ voicesLoad = "failed"))

\* two failures, then a success: the counter is back at zero, speech is on
C3_Witness ==
  maxFailRun = 2 /\ failRun = 0 /\ ttsFailCount = 0 /\ ~ttsMuted /\ speechEnabled

(***************************************************************************)
(* Properties of the timer and of announce (Spec).                         *)
(***************************************************************************)
Elapsed == totalSecondsRef - secondsLeft

\* the milestone key whose target is the elapsed time e of a session of ts
\* seconds ("" if none)
MilestoneAt(ts, e) ==
  LET ms == computeMilestones(ts)
      hits == {i \in 1..Len(ms) : ms[i].elapsed = e}
  IN  IF hits = {} THEN "" ELSE ms[CHOOSE i \in hits : TRUE].key

\* the milestone keys whose target is at or before the elapsed time e
Reached(ts, e) ==
  LET ms == computeMilestones(ts)
  IN  {ms[i].key : i \in {j \in 1..Len(ms) : ms[j].elapsed <= e}}

\* C4: in an uninterrupted session with speech enabled each milestone has been
\* dispatched exactly once as soon as the elapsed time is at its target and not
\* before; the targets of a 60-second session are 15, 30, 45 and 54; and the
\* cadence slot that coincides with a milestone (elapsed 30 of 60) gets no
\* cadence line, while every other cadence slot passed gets exactly one.
C4_MilestonesOncePerSession ==
  (uninterrupted /\ tickSpeech) =>
    /\ \A k \in MilestoneKeys :
         milestoneCount[k] = IF k \in Reached(totalSecondsRef, Elapsed) THEN 1 ELSE 0
    /\ \A n \in CadenceSlots :
         cadenceCount[n] =
           IF n <= totalSecondsRef /\ n >= secondsLeft
                /\ MilestoneAt(totalSecondsRef, totalSecondsRef - n) = ""
             THEN 1 ELSE 0
    /\ (totalSecondsRef = 60 =>
          /\ <<MilestoneAt(60, 15), MilestoneAt(60, 30), MilestoneAt(60, 45),
               MilestoneAt(60, 54)>> = <<"m25", "m50", "m75", "m90">>
          /\ (Elapsed = 30 => milestoneCount["m50"] = 1 /\ cadenceCount[30] = 0))

\* a 60-second session ran to its end without interruption, all four spoken
C4_Witness ==
  /\ uninterrupted /\ tickSpeech /\ isFinished /\ totalSecondsRef = 60
  /\ \A k \in MilestoneKeys : milestoneCount[k] = 1

FinishLineOnlyAtZero ==
  endCount' # endCount /\ endCount' # 0
    => isRunning /\ secondsLeft = 1 /\ secondsLeft' = 0 /\ isFinished' /\ endCount' = 1

NothingAtZero ==
  /\ \A speech \in BOOLEAN :
       announce(0, speech, lastSpokenRef, totalSecondsRef).line = NoLine
  /\ endCount <= 1
  /\ (endCount = 1 => isFinished /\ secondsLeft = 0)

\* C5: announce dispatches nothing when secondsRemaining is 0; the finish line
\* is dispatched only by the tick that brings secondsRemaining to 0, at most
\* once per session.
C5_FinishLineOnce == []NothingAtZero /\ [][FinishLineOnlyAtZero]_vars

\* the session has finished and its one finish line was dispatched
C5_Witness == isFinished /\ secondsLeft = 0 /\ endCount = 1

\* C6: milestones preempt cadence in every reachable state: a slot whose
\* elapsed time is a milestone target never gets a cadence line, also when
\* announce is re-run by resume.
C6_MilestonePreemptsCadence ==
  \A n \in CadenceSlots :
    (n <= totalSecondsRef /\ MilestoneAt(totalSecondsRef, totalSecondsRef - n) # "")
      => cadenceCount[n] = 0

\* C7: across ticks, pauses and resumes of one session every milestone key and
\* every cadence slot is dispatched at most once.
C7_DispatchOnce ==
  /\ \A k \in MilestoneKeys : milestoneCount[k] <= 1
  /\ \A n \in CadenceSlots : cadenceCount[n] <= 1

PhaseSteps ==
  /\ (Pause => isPaused')
  /\ (~isFinished /\ isFinished'
        => isRunning /\ secondsLeft = 1 /\ secondsLeft' = 0)
  /\ (isFinished /\ ~isFinished' => Reset)
  /\ (Reset \/ StopAndClear => isReady')

AtMostOnePhase ==
  /\ ~(isWaiting /\ isRunning)
  /\ ~(isWaiting /\ isFinished)
  /\ ~(isRunning /\ isFinished)

\* C8: the session phase follows Idle -> Waiting -> Running <-> Paused ->
\* Finished -> Idle: at most one of Waiting, Running and Finished holds; pause
\* in Running leads to Paused; Finished is entered only from Running by the tick
\* that takes secondsRemaining to 0 and left only by reset; stop and reset lead
\* to Idle.
C8_PhaseMachine == []AtMostOnePhase /\ [][PhaseSteps]_vars

SecondsSteps ==
  /\ (Tick => isRunning /\ secondsLeft' = secondsLeft - 1)
  /\ (secondsLeft' > secondsLeft
        => /\ Start \/ DeferredStart \/ Reset \/ StopAndClear
           /\ secondsLeft' = durationMinutes' * 60)
  /\ (secondsLeft' < secondsLeft /\ ~Tick
        => /\ Start \/ DeferredStart
           /\ secondsLeft' = durationMinutes' * 60)

SecondsInRange == 0 <= secondsLeft /\ secondsLeft <= totalSeconds

\* C9: 0 <= secondsRemaining <= totalSeconds in every reachable state; each
\* tick lowers secondsRemaining by exactly 1; secondsRemaining changes otherwise
\* only when start, reset or stop sets it to totalSeconds.
C9_SecondsRemaining == []SecondsInRange /\ [][SecondsSteps]_vars

\* a tick has just lowered secondsRemaining inside a running session
C9_Witness == isRunning /\ secondsLeft = totalSeconds - 1 /\ uninterrupted

FinishStep ==
  secondsLeft > 0 /\ secondsLeft' = 0
    => /\ Tick
       /\ bgAudio' = "none" /\ ~bgCtx'
       /\ (speechEnabled => endCount' = endCount + 1)
       /\ ~intervalRef'
       /\ isFinished' /\ ~isRunning'
       /\ ~recording'

FinishedStays ==
  /\ (isFinished => secondsLeft = 0 /\ ~intervalRef)
  /\ (isFinished => ~ENABLED Tick)

\* C10: the tick that brings secondsRemaining to 0 in the same step stops the
\* music, dispatches the finish line if speech is enabled, cancels the tick
\* loop, makes the phase Finished and stops the recording; afterwards no tick
\* fires and secondsRemaining stays 0 while Finished.
C10_FinishStep == []FinishedStays /\ [][FinishStep]_vars

\* a session with a camera has finished: no music, no recording, no interval
C10_Witness ==
  /\ isFinished /\ secondsLeft = 0 /\ endCount = 1
  /\ cameraStream /\ ~recording /\ bgAudio = "none" /\ ~intervalRef

\* C14: the state right after reset or stop: tick loop and wait countdown
\* cancelled, background music stopped (no element, no audio context), the
\* dedupe guard null, secondsLeft back at totalSeconds and the phase Idle.
\* The prefetch epoch, which both handlers advance, is followed by
\* SpecPrefetch.
C14_AfterResetOrStop ==
  [][Reset \/ StopAndClear =>
       /\ ~intervalRef' /\ ~waitIntervalRef'
       /\ bgAudio' = "none" /\ ~bgCtx'
       /\ lastSpokenRef' = Null
       /\ secondsLeft' = durationMinutes' * 60
       /\ ~isRunning' /\ ~isWaiting' /\ ~isFinished']_vars

(***************************************************************************)
(* Properties of a session left to run (SpecLive).                         *)
(***************************************************************************)
\* a session ends only by the tick that takes secondsLeft from 1 to 0
EndsOnlyAtZero ==
  isRunning /\ ~isRunning' => secondsLeft = 1 /\ secondsLeft' = 0 /\ isFinished'

\* every tick of a running session moves the countdown by exactly one second
TickCounts ==
  isRunning /\ isRunning' /\ secondsLeft' # secondsLeft => secondsLeft' = secondsLeft - 1

\* C11: a running session that is not paused, stopped or reset reaches
\* Finished, whatever becomes of the speak attempts (resolved, rejected,
\* failed at playback, or pending for ever), and it does so by one-second
\* ticks from totalSeconds down to 0, that is after exactly totalSeconds ticks.
C11_CountdownFinishes ==
  /\ isRunning ~> isFinished
  /\ [][EndsOnlyAtZero /\ TickCounts]_vars

\* finished while the start line's request never settled and after a failure
C11_Witness ==
  isFinished /\ secondsLeft = 0 /\ fetching["start"] > 0 /\ maxFailRun >= 1

\* nothing of the start line's attempt is outstanding any more: no request,
\* no handlers on the element, no timer and no play() promise of its own
StartLineOver ==
  /\ fetching["start"] = 0
  /\ owner # "start"
  /\ staleTimers["start"] = 0
  /\ playPending["start"] = 0

\* C12: once the session is Running the background music is playing, in
\* every Running state, whatever became of the start line (played to its end,
\* failed at synthesis or at playback, or replaced by another utterance); the
\* time the start line itself takes to settle is left out of the statement.
C12_MusicWhileRunning ==
  isRunning /\ StartLineOver => bgAudio = "playing"

\* speech was switched off by the third consecutive failure
AutoDisabled == ttsMuted /\ ~speechEnabled

\* the step dispatches no milestone, cadence or finish line
NoLineDispatched ==
  /\ milestoneCount' = milestoneCount
  /\ cadenceCount' = cadenceCount
  /\ endCount' = endCount

\* C15: once speech has been auto-disabled it stays disabled, and from then
\* on no step of the session dispatches a milestone, a cadence line or the
\* finish line.
C15_DisabledStaysSilent ==
  [][AutoDisabled => ~speechEnabled' /\ NoLineDispatched]_vars

\* the 120 ms timer of a replaced utterance fires in this step
AbandonedTimerFires == \E k \in Kinds : staleTimers'[k] < staleTimers[k]

\* C22: an event that fires for an utterance that was replaced is a no-op;
\* here its delayed play start: it starts no playback, leaves the active
\* audio reference and the URL of the new utterance alone and does not
\* change the music volume. (Its ended/error callbacks cannot fire: the
\* new utterance overwrote them on the shared element.)
C22_AbandonedEventsNoOp ==
  [][AbandonedTimerFires =>
       /\ elem' = elem
       /\ audioRef' = audioRef /\ audioUrl' = audioUrl
       /\ bgGain' = bgGain]_vars

\* C23: when the playback of an utterance fails (play() is refused, or the
\* element reports an error) the attempt counts as finished: the music
\* volume is restored, the failure counter does not go up and speech is not
\* disabled.
C23_PlaybackFailureBenign ==
  [][PlayRejected \/ VoiceError =>
       /\ ttsFailCount' <= ttsFailCount
       /\ speechEnabled' = speechEnabled
       /\ bgGain' # "duck"]_vars

(***************************************************************************)
(* Properties of pause (SpecPause).                                        *)
(***************************************************************************)
\* C13: while the session is Paused no voice utterance is playing and none
\* is about to play, including an utterance whose request or whose 120 ms
\* delay was outstanding when pause was invoked.
C13_PausedIsSilent ==
  isPaused => elem # "playing"

(***************************************************************************)
(* Properties of prefetch (SpecPrefetch).                                  *)
(***************************************************************************)
\* loop l issues a getTtsBlob request in this step
IssuesRequest(l) == loops'[l].pc = "get" /\ loops'[l] # loops[l]

\* a loop that may still issue a request: it is running under the live epoch
Issuing == {l \in Epochs : loops[l].pc \in {"get", "sleep"} /\ l = prefetchIdRef}

\* C20: once the epoch has moved past a loop's prefetchId that loop issues no
\* further getTtsBlob request: every request is issued by the loop of the
\* epoch live at that moment, so at most one loop is issuing at any time.
C20_PrefetchEpoch ==
  /\ [][\A l \in Epochs :
          /\ l < prefetchIdRef => ~IssuesRequest(l)
          /\ IssuesRequest(l) => l = prefetchIdRef']_vars
  /\ [](Cardinality(Issuing) <= 1)

\* an older loop gave up at its token check while a newer one is fetching
C20_Witness ==
  \E l \in Epochs :
    /\ loops[l].pc = "abandoned"
    /\ l < prefetchIdRef
    /\ loops[prefetchIdRef].pc = "get"

(***************************************************************************)
(* Properties of prefetch failures (SpecWarm).                             *)
(***************************************************************************)
\* the request for k that loop l awaits fails in this step
PrefetchFails(l, k) ==
  loops[l].pc = "get" /\ LineKey(loops[l].i) = k /\ FetchFails(k)

\* loop l, which holds the live token, sleeps after a failed line that is
\* not the last one
SleepsAfterFailure(l) ==
  /\ loops[l].pc = "sleep"
  /\ lastResult[LineKey(loops[l].i)] = "rejected"
  /\ loops[l].i < MaxLines
  /\ l = prefetchIdRef
  /\ speechEnabled

\* C24: a failed prefetch of a line is not fatal: it leaves the failure
\* counter and speech enablement as they were, the loop goes on to its sleep
\* and from there to the following line, and the line has no cache entry, so
\* that the next getTtsBlob for it starts a fetch.
C24_PrefetchFailureNonFatal ==
  [][/\ \A l \in Epochs, k \in Keys :
          PrefetchFails(l, k) =>
            /\ ttsFailCount' = ttsFailCount
            /\ speechEnabled' = speechEnabled
            /\ ttsMuted' = ttsMuted
            /\ loops'[l] = [pc |-> "sleep", i |-> loops[l].i]
            /\ k \notin SeqToSet(ttsCache')
            /\ NeedsFetch(k)'
     /\ \A l \in Epochs :
          SleepsAfterFailure(l) /\ loops'[l] # loops[l] =>
            /\ loops'[l].i = loops[l].i + 1
            /\ loops'[l].pc \in {"get", "sleep"}]_vars

\* the first line's prefetch failed, the loop is fetching the second line,
\* and a live speak is fetching the first line again
C24_Witness ==
  \E l \in Epochs :
    /\ loops[l] = [pc |-> "get", i |-> 2]
    /\ lastResult[LineKey(1)] = "rejected"
    /\ LineKey(1) \in ttsInFlight
    /\ LineKey(1) \notin SeqToSet(ttsCache)

(***************************************************************************)
(* Properties of the /api/tts handler (SpecServer).                        *)
(***************************************************************************)
\* the handler calls the provider for k in this step
ProviderCalled(k) == srvCalls'[k] > srvCalls[k]

\* C16: whatever the interleaving of the requests, the provider is never
\* called for a key while another call for that key is pending, nor while
\* the cache holds an unexpired result for it.
C16_ProviderOncePerKey ==
  /\ [](\A k \in Keys : srvCalls[k] <= 1)
  /\ [][\A k \in Keys :
          ProviderCalled(k) => srvCalls[k] = 0 /\ ~SrvFresh(srvCache, k)]_vars

(***************************************************************************)
(* Properties of a stopped session (SpecStop).                             *)
(***************************************************************************)
\* a synthesis request settles, resolved or rejected, in this step
RequestSettles == Total(fetching') < Total(fetching)

\* C21: a synthesis request that settles after the session was stopped does
\* nothing to the voice channel, to the music or to the failure counter:
\* nothing is loaded or played, the music is neither started nor ducked, and
\* a rejection leaves the counter and the speech setting alone.
C21_LateRequestHarmless ==
  [][isReady /\ RequestSettles =>
       /\ audioRef' = audioRef /\ owner' = owner /\ elem' = elem
       /\ bgAudio' = bgAudio /\ bgGain' = bgGain
       /\ ttsFailCount' = ttsFailCount
       /\ speechEnabled' = speechEnabled /\ ttsMuted' = ttsMuted]_vars

(***************************************************************************)
(* Properties of the helpers (SpecUtils).                                  *)
(***************************************************************************)
\* e is t * p / q rounded to the nearest integer, a half rounding up
Nearest(e, t, p, q) ==
  LET d == 2 * q * e - 2 * t * p
  IN  -q < d /\ d <= q

\* C28: for every integer totalSeconds >= 1 computeMilestones returns exactly
\* four milestones, keyed m25, m50, m75, m90 in that order, each elapsed the
\* rounded 25, 50, 75, 90 percent of totalSeconds and within 0..totalSeconds;
\* for 120 seconds they are 30, 60, 90 and 108.
C28_MilestonesRounded ==
  applied = "computeMilestones" /\ input.n >= 1 =>
    LET t == input.n
    IN  /\ Len(output) = 4
        /\ [i \in 1..4 |-> output[i].key] = <<"m25", "m50", "m75", "m90">>
        /\ Nearest(output[1].elapsed, t, 1, 4)
        /\ Nearest(output[2].elapsed, t, 1, 2)
        /\ Nearest(output[3].elapsed, t, 3, 4)
        /\ Nearest(output[4].elapsed, t, 9, 10)
        /\ \A i \in 1..4 : 0 <= output[i].elapsed /\ output[i].elapsed <= t
        /\ t = 120 => [i \in 1..4 |-> output[i].elapsed] = <<30, 60, 90, 108>>

\* the milestones of a 120-second session were computed
C28_Witness ==
  /\ applied = "computeMilestones"
  /\ input.n = 120
  /\ output[4] = [key |-> "m90", elapsed |-> 108]

\* the elapsed values of the cadence lines of a list
CadenceAt(lines) == {lines[i].at : i \in {j \in 1..Len(lines) : lines[j].key = "t"}}

\* how many lines of a list have the key
CountKey(lines, key) == Cardinality({i \in 1..Len(lines) : lines[i].key = key})

\* the elapsed targets of the milestones of a session of t seconds
Targets(t) ==
  {e \in 0..t : Nearest(e, t, 1, 4) \/ Nearest(e, t, 1, 2) \/ Nearest(e, t, 3, 4)
                  \/ Nearest(e, t, 9, 10)}

\* C26: for every session length buildPrefetchLines returns one start line,
\* one end line, the four milestone lines m25, m50, m75, m90, and a cadence
\* line t{e} for exactly the multiples e of 30 below totalSeconds that are no
\* milestone's elapsed target, the slot at 0 being dropped only when
\* totalSeconds is no multiple of 30; for 120 seconds the keys are start, end,
\* m25, m50, m75, m90 and t0, without t30, t60, t90.
C26_PrefetchKeys ==
  applied = "buildPrefetchLines" =>
    LET t == input.n
        slots == {e \in 0..(t - 1) : e % CadenceSeconds = 0}
    IN  /\ \A k \in {"start", "end"} \cup MilestoneKeys : CountKey(output, k) = 1
        /\ \A i \in 1..Len(output) : output[i].key \in {"start", "end", "t"} \cup MilestoneKeys
        /\ CountKey(output, "t") = Cardinality(CadenceAt(output))
        /\ CadenceAt(output) =
             {e \in slots : e \notin Targets(Max(1, t)) /\ (e = 0 => t % CadenceSeconds = 0)}
        /\ t = 120 => CadenceAt(output) = {0}

\* the lines of a 120-second session were built: t0 is there, t30 is not
C26_Witness ==
  /\ applied = "buildPrefetchLines"
  /\ input.n = 120
  /\ Len(output) = 7
  /\ output[7] = Line("t", 0)

\* C27 as stated: the slot at 0 is dropped unless totalSeconds is no multiple
\* of 30: a multiple of 30 has no t0 line, any other length keeps it.
C27_ZeroSlotAsStated ==
  applied = "buildPrefetchLines" =>
    /\ input.n % CadenceSeconds = 0 => 0 \notin CadenceAt(output)
    /\ input.n % CadenceSeconds # 0 => 0 \in CadenceAt(output)

\* C27 amended: the slot at 0 is dropped when totalSeconds is no multiple of
\* 30: a positive multiple of 30 keeps its t0 line, any other length has none.
C27_ZeroSlot ==
  applied = "buildPrefetchLines" =>
    /\ input.n > 0 /\ input.n % CadenceSeconds = 0 => 0 \in CadenceAt(output)
    /\ input.n % CadenceSeconds # 0 => 0 \notin CadenceAt(output)

\* the lines of a 60-second session were built and t0 is among them
C27_Witness ==
  /\ applied = "buildPrefetchLines"
  /\ input.n = 60
  /\ 0 \in CadenceAt(output)


\* the words of a text: its maximal runs of characters that are no whitespace
Runs(s) == Cardinality({i \in 1..Len(s) : ~IsSpace(s[i]) /\ (i = 1 \/ IsSpace(s[i - 1]))})

\* the text has no character that is not whitespace
Blank(s) == \A i \in 1..Len(s) : IsSpace(s[i])

\* k copies of the filler phrase
RECURSIVE Copies(_)
Copies(k) == IF k = 0 THEN <<>> ELSE SHORT_UTTERANCE_PAD \o Copies(k - 1)

\* at most one copy is needed for every two missing words
MaxCopies == SHORT_UTTERANCE_MIN_WORDS

\* padShortUtterance applied a second time returns what it was given
PadTwiceIsPadOnce ==
  applied = "padShortUtterance" /\ applied' = "padShortUtterance twice" => output' = output

\* C29 as stated: for a text that is not blank padShortUtterance returns the
\* text followed by zero or more copies of the filler phrase, with at least
\* 10 words, and the text itself when it has 10 words or more; a blank text
\* is returned unchanged; applying it twice is applying it once.
C29_PadAsStated ==
  /\ [](applied = "padShortUtterance" =>
          IF Blank(input.text) THEN output = input.text
          ELSE /\ \E k \in 0..MaxCopies : output = input.text \o Copies(k)
               /\ Runs(output) >= SHORT_UTTERANCE_MIN_WORDS
               /\ Runs(input.text) >= SHORT_UTTERANCE_MIN_WORDS => output = input.text)
  /\ [][PadTwiceIsPadOnce]_vars

\* output is the text without the whitespace around it, then k copies
TrimmedThenCopies(text, out, k) ==
  LET n == Len(out) - k * Len(SHORT_UTTERANCE_PAD)
      core == SubSeq(out, 1, n)
  IN  /\ n >= 1
      /\ out = core \o Copies(k)
      /\ ~IsSpace(core[1]) /\ ~IsSpace(core[n])
      /\ \E l, r \in 0..Len(text) : text = Spaces(l) \o core \o Spaces(r)

\* C29 amended: for a text that is not blank padShortUtterance returns the
\* text without its leading and trailing whitespace followed by zero or more
\* copies of the filler phrase, with at least 10 words, and no copy when the
\* text has 10 words or more; a blank text is returned unchanged; applying it
\* twice is applying it once.
C29_PadTrimmed ==
  /\ [](applied = "padShortUtterance" =>
          IF Blank(input.text) THEN output = input.text
          ELSE /\ \E k \in 0..MaxCopies : TrimmedThenCopies(input.text, output, k)
               /\ Runs(output) >= SHORT_UTTERANCE_MIN_WORDS
               /\ Runs(input.text) >= SHORT_UTTERANCE_MIN_WORDS =>
                    TrimmedThenCopies(input.text, output, 0))
  /\ [][PadTwiceIsPadOnce]_vars

\* a one-word text with whitespace before it was padded with five copies and
\* the result was padded again
C29_Witness ==
  /\ applied = "padShortUtterance twice"
  /\ input.text = <<" ", "a">>
  /\ output = <<"a">> \o Copies(5)


(***************************************************************************)
(* Properties of the session length (SpecMinutes).                         *)
(***************************************************************************)
\* m is the number of minutes the claim gives the request
Requested(request, m) ==
  IF ~request.numeric THEN m = MinMinutes
  ELSE IF request.tenths < 10 * MinMinutes THEN m = MinMinutes
  ELSE IF request.tenths >= 10 * MaxMinutes THEN m = MaxMinutes
  ELSE 10 * m <= request.tenths /\ request.tenths < 10 * m + 10

\* C30: a start fixes totalSeconds at 60 times the requested minutes,
\* truncated and clamped to 1..15: below 1 gives 1, above 15 gives 15, a
\* fraction is cut off, a text that is no number gives 1; so totalSeconds is
\* a multiple of 60 in 60..900, and it changes only when a session starts.
C30_DurationClamped ==
  /\ [](applied = "startSeconds" =>
          \E m \in MinMinutes..MaxMinutes : output = 60 * m /\ Requested(input, m))
  /\ [](totalSeconds \in {60 * m : m \in MinMinutes..MaxMinutes})
  /\ [][durationMinutes' # durationMinutes => Start]_vars


(***************************************************************************)
(* Properties of the pre-roll (SpecWait).                                  *)
(***************************************************************************)
\* a speak request is dispatched in this step
Dispatches == Total(fetching') > Total(fetching)

\* C25: while the session is Waiting no utterance is dispatched or played,
\* the music pipeline exists (where the browser has Web Audio) with its gain
\* at 0, and the countdown does not move: secondsLeft is unchanged until the
\* wait ends.
C25_WaitingIsQuiet ==
  /\ [](isWaiting =>
          /\ elem # "playing"
          /\ hasWebAudio => bgAudio # "none" /\ bgGain = "zero")
  /\ [][isWaiting => secondsLeft' = secondsLeft /\ ~Dispatches]_vars

(***************************************************************************)
(* Properties of pause and resume (Spec).                                  *)
(***************************************************************************)
\* a step inside Paused leaves the countdown, the session length and the
\* dedupe guard as they are
PausedFrame ==
  isPaused /\ isPaused' =>
    /\ secondsLeft' = secondsLeft
    /\ totalSeconds' = totalSeconds /\ totalSecondsRef' = totalSecondsRef
    /\ lastSpokenRef' = lastSpokenRef

\* pause stops the tick loop and pauses the music, keeping element and context
PauseStep ==
  Pause =>
    /\ secondsLeft' = secondsLeft
    /\ totalSeconds' = totalSeconds /\ totalSecondsRef' = totalSecondsRef
    /\ lastSpokenRef' = lastSpokenRef
    /\ ~intervalRef'
    /\ bgAudio' = (IF bgAudio = "none" THEN "none" ELSE "paused")
    /\ bgCtx' = bgCtx

\* resume re-runs announce once for the secondsLeft it finds, which is the
\* value the next tick starts from, and restarts the tick loop
ResumeStep ==
  Resume =>
    LET a == announce(secondsLeft, speechEnabled, lastSpokenRef, totalSecondsRef)
        hit == a.line # NoLine
    IN  /\ secondsLeft' = secondsLeft
        /\ lastSpokenRef' = a.last
        /\ Total(fetching') = Total(fetching) + (IF hit /\ Total(fetching) < MaxPending THEN 1 ELSE 0)
        /\ hit => \/ \E k \in MilestoneKeys : a.line.key = k /\ milestoneCount'[k] = Bump(milestoneCount[k], TRUE)
                  \/ a.line.key = "cadence" /\ cadenceCount'[a.line.sl] = Bump(cadenceCount[a.line.sl], TRUE)
        /\ ~hit => NoLineDispatched
        /\ intervalRef'
        /\ bgAudio' = (IF bgAudio = "none" THEN "none" ELSE "playing")

OneTickTimer ==
  /\ tickTimers \in {0, 1}
  /\ intervalRef <=> tickTimers = 1
  /\ tickTimers = 1 => isRunning

\* C32: the tick loop is strictly serialized: whatever the sequence of start,
\* pause, resume, reset and stop, at most one tick interval is registered, so
\* a tick is the callback of that one interval and takes exactly one second
\* off secondsLeft, and an interval is registered only while Running.
C32_TickSerialized ==
  /\ []OneTickTimer
  /\ [][Tick => tickTimers = 1 /\ secondsLeft' = secondsLeft - 1]_vars

\* a session that was paused and resumed runs on one interval
C32_Witness ==
  /\ isRunning /\ ~uninterrupted
  /\ intervalRef /\ tickTimers = 1
  /\ secondsLeft = totalSeconds - 1

(***************************************************************************)
(* Properties of fetchTtsBlob (SpecCache).                                 *)
(***************************************************************************)
\* a new fetch for k begins in this step
FetchBegins(k) == Outstanding(k)' > Outstanding(k)

\* the static lookup for k misses (a non-success status or an error) in this
\* step
StaticMisses(k) ==
  staticPending'[k] < staticPending[k] /\ k \in ttsInFlight' /\ k \notin SeqToSet(ttsCache')

\* the request for k is rejected in this step
RequestRejected(k) == Outstanding(k)' < Outstanding(k) /\ lastResult'[k] = "rejected"

\* C33: a new fetch starts with the static lookup; the remote endpoint is
\* called only in the step in which the static lookup misses or throws; a
\* static miss rejects nobody: the request stays in flight and its callers
\* keep waiting; and the request is rejected only by the failure of the
\* remote call, which a static miss preceded.
C33_StaticFirst ==
  /\ [][\A k \in Keys :
          /\ FetchBegins(k) =>
               staticPending'[k] = staticPending[k] + 1 /\ apiPending'[k] = apiPending[k]
          /\ apiPending'[k] > apiPending[k] =>
               StaticMisses(k) /\ apiPending'[k] = apiPending[k] + 1
          /\ StaticMisses(k) =>
               /\ apiPending'[k] = apiPending[k] + 1
               /\ waiters'[k] = waiters[k] /\ lastResult'[k] = lastResult[k]
          /\ RequestRejected(k) =>
               apiPending'[k] < apiPending[k] /\ staticPending'[k] = staticPending[k]]_vars
  /\ [](\A k \in Keys : staticPending[k] + apiPending[k] <= 1)

\* the static lookup of a key missed: the remote call is pending and the two
\* callers still wait, none of them rejected
C33_Witness ==
  \E k \in Keys :
    /\ apiPending[k] = 1 /\ staticPending[k] = 0
    /\ k \in ttsInFlight /\ waiters[k] = 2
    /\ lastResult[k] = "none"

(***************************************************************************)
(* Properties of ducking (SpecLive).                                       *)
(***************************************************************************)
\* there is a music channel: an element, or the gain node of a context
MusicExists == bgAudio # "none" \/ bgCtx

\* the voice element begins to play in this step
PlaybackBegins == elem # "playing" /\ elem' = "playing"

\* C34: for every utterance that is played the music is ducked before the
\* voice begins: at the step in which playback begins an existing music
\* channel is at its ducked gain; and when the utterance ends, naturally or
\* with a playback error, the music is back at normal gain and the attempt
\* that owned the playback is settled.
C34_DuckAroundVoice ==
  /\ [][PlaybackBegins => (MusicExists => bgGain = "duck")]_vars
  /\ [][VoiceEnded \/ VoiceError =>
          /\ MusicExists' => bgGain' = "normal"
          /\ owner' = "none"]_vars

(***************************************************************************)
(* Properties of the recording signals (Spec).                             *)
(***************************************************************************)
\* the session ends in this step: the finishing tick, a reset or a stop
SessionEnds == (Tick /\ isFinished') \/ Reset \/ StopAndClear

\* C35: the recording is stopped whenever the session ends: by the finishing
\* tick and by every stop and reset, so that no recording runs on into Idle
\* or Finished from the session that started it.
C35_RecordingStopsAtEnd == [][SessionEnds => ~recording']_vars

(***************************************************************************)
(* Properties of the music outside a session (SpecStop).                   *)
(***************************************************************************)
\* the music can be heard: its element plays and its gain is not 0
Audible == bgAudio = "playing" /\ bgGain # "zero"

\* no session is under way: the page is Idle or Finished
NoSession == isReady \/ isFinished

\* C36: the music is never audible while the session is Idle or Finished,
\* and no event that arrives there (such as the start line's attempt
\* settling after a stop) starts the music or raises its gain.
C36_SilentOutsideSession ==
  /\ [](NoSession => ~Audible)
  /\ [][NoSession /\ NoSession' => (~Audible => ~Audible')]_vars

(***************************************************************************)
(* Properties of the ducked music (SpecLive).                              *)
(***************************************************************************)
\* no utterance is active or pending: no request, no handlers on the voice
\* element, nothing playing or about to, no timer and no play() promise
NoUtterance ==
  /\ Total(fetching) = 0
  /\ owner = "none"
  /\ elem = "idle"
  /\ TimerTotal(staleTimers) = 0
  /\ Total(playPending) = 0

\* C37: the music is never left ducked: however the utterance it was ducked
\* for stops, the gain returns to normal, so in a Running state with no
\* utterance active or pending the music is not at its ducked gain.
C37_NeverLeftDucked == isRunning /\ NoUtterance => bgGain # "duck"

(***************************************************************************)
(* Properties of the in-flight map (SpecCache).                            *)
(***************************************************************************)
\* the in-flight entry of k is removed in this step
EntryRemoved(k) == k \in ttsInFlight /\ k \notin ttsInFlight'

\* the fetch for k settles in this step
FetchSettles(k) == Outstanding(k)' < Outstanding(k)

\* C38: no key is both cached and in flight, and the in-flight entry of a
\* key is removed exactly in the step in which its fetch settles: on success
\* the key is then in the cache, on failure it is in neither map.
C38_CacheInFlightDisjoint ==
  /\ [](SeqToSet(ttsCache) \cap ttsInFlight = {})
  /\ [][\A k \in Keys :
          /\ EntryRemoved(k) <=> FetchSettles(k)
          /\ FetchSettles(k) /\ lastResult'[k] = "resolved" => k \in SeqToSet(ttsCache')
          /\ FetchSettles(k) /\ lastResult'[k] = "rejected" => k \notin SeqToSet(ttsCache')]_vars

\* one key is cached, another is in flight, a third failed and is in neither
C38_Witness ==
  \E a, b, c \in Keys :
    /\ a \in SeqToSet(ttsCache) /\ a \notin ttsInFlight /\ lastResult[a] = "resolved"
    /\ b \in ttsInFlight /\ b \notin SeqToSet(ttsCache)
    /\ lastResult[c] = "rejected" /\ c \notin ttsInFlight /\ c \notin SeqToSet(ttsCache)

(***************************************************************************)
(* Properties of live dispatch against the prefetch plan (Spec).           *)
(***************************************************************************)
\* the plan of a session of total seconds has the line with this text
InPlan(l, text, total) ==
  LET lines == buildPrefetchLines(total)
  IN  \E i \in 1..Len(lines) : lines[i] = l /\ LineText(lines[i]) = text

\* announce dispatches the cadence line of slot n in this step
CadenceDispatched(n) == cadenceCount'[n] > cadenceCount[n]

\* announce dispatches milestone k in this step
MilestoneDispatched(k) == milestoneCount'[k] > milestoneCount[k]

\* C39: every milestone or cadence line that announce dispatches, at a
\* start, a tick or a resume, is a line of buildPrefetchLines for the
\* session's totalSeconds with the same text: a milestone under its key,
\* the cadence line of elapsed e under t{e} with the bank entry of index
\* floor(e / 30).
C39_DispatchInPlan ==
  [][/\ \A k \in MilestoneKeys :
          MilestoneDispatched(k) =>
            InPlan(Line(k, 0), announceText(MilestoneLine(k, secondsLeft'), totalSecondsRef'),
                   totalSecondsRef')
     /\ \A n \in CadenceSlots :
          CadenceDispatched(n) =>
            InPlan(Line("t", totalSecondsRef' - n),
                   announceText(CadenceLine(n), totalSecondsRef'), totalSecondsRef')]_vars

(***************************************************************************)
(* Properties of stop during the wait countdown (Spec).                    *)
(***************************************************************************)
\* Idle with no start under way: no countdown, no deferred startTimer, no
\* tick interval
IdleNothingPending ==
  /\ isReady
  /\ ~waitIntervalRef
  /\ ~pendingStart
  /\ ~intervalRef
  /\ tickTimers = 0

\* stop pressed during the wait countdown
StopWhileWaiting == isWaiting /\ StopAndClear

\* start is requested
StartRequested == Start \/ StartWithWait

\* C40: a stop during the wait countdown, also one after the last wait tick
\* has scheduled the deferred start, returns the session to Idle with no
\* start left pending; and from there, until start is requested again, the
\* session stays Idle, starts no tick timer and dispatches nothing.
C40_StopCancelsPendingStart ==
  /\ [][StopWhileWaiting => IdleNothingPending']_vars
  /\ [][IdleNothingPending /\ ~StartRequested =>
          IdleNothingPending' /\ fetching' = fetching]_vars

\* the same with the deferred start not yet scheduled at the stop
StopBeforeLastWaitTickCancels ==
  /\ [][StopWhileWaiting /\ ~pendingStart => IdleNothingPending']_vars
  /\ [][IdleNothingPending /\ ~StartRequested =>
          IdleNothingPending' /\ fetching' = fetching]_vars

====
